---- MODULE Spec2Model ----
(***************************************************************************)
(* Model of the feed client src/modules/nowgoal_client.py: the literal     *)
(* tokenizer, the row extractor, the record builder, the handicap          *)
(* normalizer, the dataset cache and the two query functions.              *)
(*                                                                         *)
(* Conventions                                                             *)
(*  - a Python str is a sequence of one-character strings (a "text");      *)
(*  - Python's None as an optional is <<>>, a present value v is <<v>>;    *)
(*  - a Python value of dynamic type is a record [t, b, i, f, s] whose tag *)
(*    t says which of the other fields is meaningful;                      *)
(*  - a float is sign and magnitude on the grid of 10^-7 (the feed quotes  *)
(*    lines in quarters; 10^-7 also carries the 1e-6 tolerance of the      *)
(*    bucketing), or an infinity, or a NaN;                                *)
(*  - a datetime is the number of seconds since 2024-01-01 00:00:00;       *)
(*  - an operation that can raise returns [ok, val, exc].                  *)
(***************************************************************************)
EXTENDS Integers, Sequences, FiniteSets, TLC

VARIABLES now, cache, refreshed, call, threads, scan, unit, transport, workers,
          written, storage, callers

vars ==
    <<now, cache, refreshed, call, threads, scan, unit, transport, workers,
      written, storage, callers>>

(***************************************************************************)
(* Characters and texts                                                    *)
(***************************************************************************)
Digits == {"0", "1", "2", "3", "4", "5", "6", "7", "8", "9"}

Whitespace == {" ", "\n", "\t", "\r"}

DigitVal(c) ==
    CASE c = "0" -> 0 [] c = "1" -> 1 [] c = "2" -> 2 [] c = "3" -> 3
      [] c = "4" -> 4 [] c = "5" -> 5 [] c = "6" -> 6 [] c = "7" -> 7
      [] c = "8" -> 8 [] c = "9" -> 9

DigitChar(n) == <<"0", "1", "2", "3", "4", "5", "6", "7", "8", "9">>[n + 1]

SetMin(S) == CHOOSE x \in S : \A y \in S : x <= y

SetMax(S) == CHOOSE x \in S : \A y \in S : x >= y

Pow10(n) == IF n <= 0 THEN 1 ELSE 10 ^ n

Abs(n) == IF n < 0 THEN 0 - n ELSE n

\* str.strip(): both ends cleared of whitespace
Strip(s) ==
    LET keep == {i \in 1..Len(s) : s[i] \notin Whitespace}
    IN IF keep = {} THEN <<>> ELSE SubSeq(s, SetMin(keep), SetMax(keep))

\* str.startswith
StartsWith(s, p) == Len(s) >= Len(p) /\ SubSeq(s, 1, Len(p)) = p

\* the places (1-based) where p occurs in s
Occurrences(s, p) ==
    {i \in 1..(Len(s) - Len(p) + 1) : SubSeq(s, i, i + Len(p) - 1) = p}

\* p in s
Contains(s, p) == Occurrences(s, p) # {}

\* str.replace(c, d), c and d single characters
ReplaceChar(s, c, d) == [i \in 1..Len(s) |-> IF s[i] = c THEN d ELSE s[i]]

\* str.replace(c, ""), c a single character
RemoveChar(s, c) == SelectSeq(s, LAMBDA x : x # c)

\* str.replace(p, r), leftmost matches first, not overlapping
RECURSIVE ReplaceText(_, _, _)
ReplaceText(s, p, r) ==
    IF Len(s) < Len(p) \/ s = <<>> THEN s
    ELSE IF StartsWith(s, p)
         THEN r \o ReplaceText(SubSeq(s, Len(p) + 1, Len(s)), p, r)
         ELSE <<Head(s)>> \o ReplaceText(Tail(s), p, r)

\* the k-th smallest element of a set of numbers
Kth(S, k) == CHOOSE x \in S : Cardinality({y \in S : y < x}) = k - 1

\* str.split(c), c a single character: the pieces between the places of c,
\* the empty pieces kept
SplitOn(s, c) ==
    LET brk == {i \in 1..Len(s) : s[i] = c}
        n == Cardinality(brk)
        from(k) == IF k = 1 THEN 1 ELSE Kth(brk, k - 1) + 1
        to(k) == IF k = n + 1 THEN Len(s) ELSE Kth(brk, k) - 1
    IN [k \in 1..(n + 1) |-> SubSeq(s, from(k), to(k))]

\* str.splitlines(), the line break of the feed being "\n": as split, but
\* no empty last line after a final break, and no line at all of ""
SplitLines(s) ==
    IF s = <<>> THEN <<>>
    ELSE IF s[Len(s)] = "\n" THEN SplitOn(SubSeq(s, 1, Len(s) - 1), "\n")
    ELSE SplitOn(s, "\n")

\* the run of digits s starts with
RECURSIVE DigitRun(_)
DigitRun(s) ==
    IF s # <<>> /\ Head(s) \in Digits THEN <<Head(s)>> \o DigitRun(Tail(s))
    ELSE <<>>

\* the number a text of digits writes
RECURSIVE DigitsValue(_)
DigitsValue(s) ==
    IF s = <<>> THEN 0
    ELSE DigitsValue(SubSeq(s, 1, Len(s) - 1)) * 10 + DigitVal(s[Len(s)])

\* str(n) of a natural number
RECURSIVE NatText(_)
NatText(n) ==
    IF n < 10 THEN <<DigitChar(n)>> ELSE NatText(n \div 10) \o <<DigitChar(n % 10)>>

\* str(n) of an int
IntText(n) == IF n < 0 THEN <<"-">> \o NatText(0 - n) ELSE NatText(n)

\* a natural number below 100 in two digits, as strftime writes %d %m %H %M
Pad2(n) == IF n < 10 THEN <<"0", DigitChar(n)>> ELSE NatText(n)

(***************************************************************************)
(* Python values                                                           *)
(***************************************************************************)
Scale == 10 ^ 7

Fin(neg, m) == [k |-> "fin", neg |-> neg, m |-> m]

Inf(neg) == [k |-> "inf", neg |-> neg, m |-> 0]

NaN == [k |-> "nan", neg |-> FALSE, m |-> 0]

PyNone == [t |-> "None", b |-> FALSE, i |-> 0, f |-> Fin(FALSE, 0), s |-> <<>>]

PyBool(v) == [PyNone EXCEPT !.t = "bool", !.b = v]

PyInt(v) == [PyNone EXCEPT !.t = "int", !.i = v]

PyFloat(v) == [PyNone EXCEPT !.t = "float", !.f = v]

PyStr(v) == [PyNone EXCEPT !.t = "str", !.s = v]

Ok(v) == [ok |-> TRUE, val |-> v, exc |-> "-"]

Raise(e) == [ok |-> FALSE, val |-> <<>>, exc |-> e]

(***************************************************************************)
(* int(str) and float(str)                                                 *)
(***************************************************************************)
Lower(c) ==
    CASE c = "I" -> "i" [] c = "N" -> "n" [] c = "F" -> "f" [] c = "A" -> "a"
      [] c = "T" -> "t" [] c = "Y" -> "y" [] OTHER -> c

LowerText(s) == [i \in 1..Len(s) |-> Lower(s[i])]

\* a numeral's sign, and the numeral without it
IsNeg(s) == s # <<>> /\ Head(s) = "-"

Unsigned(s) == IF s # <<>> /\ Head(s) \in {"-", "+"} THEN Tail(s) ELSE s

\* int(text): surrounding whitespace, one sign, decimal digits
IntOfText(text) ==
    LET OfDigits(neg, body) ==
            IF body # <<>> /\ DigitRun(body) = body
            THEN Ok(IF neg THEN 0 - DigitsValue(body) ELSE DigitsValue(body))
            ELSE Raise("ValueError")
    IN OfDigits(IsNeg(Strip(text)), Unsigned(Strip(text)))

\* the first 7 decimals of a fraction, in units of 10^-7
FractionUnits(fp) ==
    IF Len(fp) >= 7 THEN DigitsValue(SubSeq(fp, 1, 7))
    ELSE DigitsValue(fp) * Pow10(7 - Len(fp))

\* float(text): whitespace, sign, then inf / infinity / nan or a decimal with
\* an optional exponent. A magnitude of 10^309 or more is an infinity. The
\* text is read left to right: integer part, fraction, exponent mark, sign
\* and digits, each step handing what it read to the next.
FloatOfText(text) ==
    LET Value(neg, mant, hasExp, eneg, exp10) ==
            IF mant = 0 THEN Ok(Fin(neg, 0))
            ELSE IF ~hasExp THEN Ok(Fin(neg, mant))
            ELSE IF ~eneg /\ Len(NatText(mant)) - 8 + exp10 >= 309 THEN Ok(Inf(neg))
            ELSE IF eneg THEN Ok(Fin(neg, mant \div Pow10(exp10)))
            ELSE Ok(Fin(neg, mant * Pow10(exp10)))
        Checked(neg, ip, fp, hasExp, eneg, ep, rest) ==
            IF (ip = <<>> /\ fp = <<>>) \/ (hasExp /\ ep = <<>>) \/ rest # <<>>
            THEN Raise("ValueError")
            ELSE Value(neg, DigitsValue(ip) * Scale + FractionUnits(fp), hasExp, eneg,
                       DigitsValue(ep))
        ExpDigits(neg, ip, fp, hasExp, eneg, r4) ==
            Checked(neg, ip, fp, hasExp, eneg,
                    IF hasExp THEN DigitRun(r4) ELSE <<>>,
                    IF hasExp THEN SubSeq(r4, Len(DigitRun(r4)) + 1, Len(r4)) ELSE r4)
        ExpSign(neg, ip, fp, hasExp, r3) ==
            ExpDigits(neg, ip, fp, hasExp, hasExp /\ IsNeg(r3),
                      IF hasExp THEN Unsigned(r3) ELSE r3)
        ExpMark(neg, ip, fp, r2) ==
            ExpSign(neg, ip, fp, r2 # <<>> /\ Head(r2) \in {"e", "E"},
                    IF r2 # <<>> /\ Head(r2) \in {"e", "E"} THEN Tail(r2) ELSE r2)
        Fraction(neg, ip, hasDot, r1) ==
            ExpMark(neg, ip, IF hasDot THEN DigitRun(Tail(r1)) ELSE <<>>,
                    IF hasDot THEN SubSeq(r1, Len(DigitRun(Tail(r1))) + 2, Len(r1)) ELSE r1)
        IntPart(neg, body, ip) ==
            Fraction(neg, ip, Len(body) > Len(ip) /\ body[Len(ip) + 1] = ".",
                     SubSeq(body, Len(ip) + 1, Len(body)))
        OfBody(neg, body) ==
            IF LowerText(body) \in {<<"i", "n", "f">>, <<"i", "n", "f", "i", "n", "i", "t", "y">>}
            THEN Ok(Inf(neg))
            ELSE IF LowerText(body) = <<"n", "a", "n">> THEN Ok(NaN)
            ELSE IntPart(neg, body, DigitRun(body))
    IN OfBody(IsNeg(Strip(text)), Unsigned(Strip(text)))

(***************************************************************************)
(* Literal tokenizer                                                       *)
(***************************************************************************)
TokInit == [values |-> <<>>, token |-> <<>>, in_string |-> FALSE, escaped |-> FALSE]

\* variant: a quote closes the segment whether or not it is escaped
TokStepQuoteAlwaysCloses(st, ch) ==
    IF st.in_string
    THEN IF ch = "'"
         THEN [st EXCEPT !.values = Append(@, [kind |-> "str", raw |-> st.token]),
                         !.token = <<>>, !.in_string = FALSE, !.escaped = FALSE]
         ELSE IF st.escaped THEN [st EXCEPT !.token = @ \o <<ch>>, !.escaped = FALSE]
         ELSE IF ch = "\\" THEN [st EXCEPT !.escaped = TRUE]
         ELSE [st EXCEPT !.token = @ \o <<ch>>]
    ELSE IF ch = "'" THEN [st EXCEPT !.in_string = TRUE]
    ELSE IF ch = ","
    THEN [st EXCEPT !.values = Append(@, [kind |-> "token", raw |-> Strip(st.token)]),
                    !.token = <<>>]
    ELSE [st EXCEPT !.token = @ \o <<ch>>]

\* one character of the scan
TokStep(st, ch) ==
    IF st.in_string
    THEN IF st.escaped
         THEN [st EXCEPT !.token = @ \o <<ch>>, !.escaped = FALSE]
         ELSE IF ch = "\\" THEN [st EXCEPT !.escaped = TRUE]
         ELSE IF ch = "'"
         THEN [st EXCEPT !.values = Append(@, [kind |-> "str", raw |-> st.token]),
                         !.token = <<>>, !.in_string = FALSE]
         ELSE [st EXCEPT !.token = @ \o <<ch>>]
    ELSE IF ch = "'" THEN [st EXCEPT !.in_string = TRUE]
    ELSE IF ch = ","
    THEN [st EXCEPT !.values = Append(@, [kind |-> "token", raw |-> Strip(st.token)]),
                    !.token = <<>>]
    ELSE [st EXCEPT !.token = @ \o <<ch>>]

\* the scan of entry[lo..hi] from state st, left to right (the range is
\* halved so that the evaluation stays shallow)
RECURSIVE TokScan(_, _, _, _)
TokScan(st, entry, lo, hi) ==
    IF lo > hi THEN st
    ELSE IF lo = hi THEN TokStep(st, entry[lo])
    ELSE LET left == TokScan(st, entry, lo, (lo + hi) \div 2)
         IN IF left.in_string \in BOOLEAN
            THEN TokScan(left, entry, (lo + hi) \div 2 + 1, hi)
            ELSE left

\* the flush at the end of the input
TokFlush(st) ==
    IF st.in_string THEN Append(st.values, [kind |-> "str", raw |-> st.token])
    ELSE Append(st.values, [kind |-> "token", raw |-> Strip(st.token)])

\* A variant of the typing that classifies the text of a quoted segment like
\* a bare token; TokensTyped is tested against it.
ClassifyQuotedToo(v) ==
    LET Typed(parsed, float) ==
            IF ~parsed.ok THEN PyStr(v.raw)
            ELSE IF float THEN PyFloat(parsed.val) ELSE PyInt(parsed.val)
    IN IF v.raw = <<>> \/ v.raw = <<"u", "n", "d", "e", "f", "i", "n", "e", "d">> THEN PyNone
       ELSE IF v.raw = <<"T", "r", "u", "e">> THEN PyBool(TRUE)
       ELSE IF v.raw = <<"F", "a", "l", "s", "e">> THEN PyBool(FALSE)
       ELSE IF Contains(v.raw, <<".">>) THEN Typed(FloatOfText(v.raw), TRUE)
       ELSE Typed(IntOfText(v.raw), FALSE)

\* the type of one flushed token
ClassifyToken(v) ==
    LET Typed(parsed, float) ==
            IF ~parsed.ok THEN PyStr(v.raw)
            ELSE IF float THEN PyFloat(parsed.val) ELSE PyInt(parsed.val)
    IN IF v.kind = "str" THEN PyStr(v.raw)
       ELSE IF v.raw = <<>> \/ v.raw = <<"u", "n", "d", "e", "f", "i", "n", "e", "d">> THEN PyNone
       ELSE IF v.raw = <<"T", "r", "u", "e">> THEN PyBool(TRUE)
       ELSE IF v.raw = <<"F", "a", "l", "s", "e">> THEN PyBool(FALSE)
       ELSE IF Contains(v.raw, <<".">>) THEN Typed(FloatOfText(v.raw), TRUE)
       ELSE Typed(IntOfText(v.raw), FALSE)

_parse_js_array(entry) ==
    LET values == TokFlush(TokScan(TokInit, entry, 1, Len(entry)))
    IN [i \in 1..Len(values) |-> ClassifyToken(values[i])]

(***************************************************************************)
(* Record builder                                                          *)
(***************************************************************************)
\* int(value) of a float: truncation toward zero
TruncFloat(f) == IF f.neg THEN 0 - (f.m \div Scale) ELSE f.m \div Scale

\* int(value): the result, or the exception int raises
IntOfValue(value) ==
    CASE value.t = "None" -> Raise("TypeError")
      [] value.t = "bool" -> Ok(IF value.b THEN 1 ELSE 0)
      [] value.t = "int" -> Ok(value.i)
      [] value.t = "float" ->
            (CASE value.f.k = "fin" -> Ok(TruncFloat(value.f))
               [] value.f.k = "inf" -> Raise("OverflowError")
               [] value.f.k = "nan" -> Raise("ValueError"))
      [] value.t = "str" -> IntOfText(value.s)

\* float(value): the result, or the exception float raises
FloatOfValue(value) ==
    CASE value.t = "None" -> Raise("TypeError")
      [] value.t = "bool" -> Ok(Fin(FALSE, IF value.b THEN Scale ELSE 0))
      [] value.t = "int" -> Ok(Fin(value.i < 0, Abs(value.i) * Scale))
      [] value.t = "float" -> Ok(value.f)
      [] value.t = "str" -> FloatOfText(value.s)

\* value in (None, "")
IsNoneOrEmpty(value) == value.t = "None" \/ (value.t = "str" /\ value.s = <<>>)

\* except (TypeError, ValueError): return None -- around a conversion whose
\* outcome is r: the value, None (<<>>), or the exception that escapes
ExceptTypeValue(r) ==
    IF r.ok THEN Ok(<<r.val>>)
    ELSE IF r.exc \in {"TypeError", "ValueError"} THEN Ok(<<>>)
    ELSE r

\* an int, None (<<>>), or the exception that escapes
_coerce_int(value) ==
    IF IsNoneOrEmpty(value) THEN Ok(<<>>) ELSE ExceptTypeValue(IntOfValue(value))

\* a float, None (<<>>), or the exception that escapes; the second attempt,
\* float(str(value)), is reached only by a str, whose str() is itself
_coerce_float(value) ==
    IF IsNoneOrEmpty(value) THEN Ok(<<>>) ELSE ExceptTypeValue(FloatOfValue(value))

\* re.sub(r"<[^>]+>", "", s): a "<" opens a tag when the next ">" is at least
\* two places on
RECURSIVE StripTags(_)
StripTags(s) ==
    IF s = <<>> THEN <<>>
    ELSE LET close == {i \in 2..Len(s) : s[i] = ">"}
         IN IF Head(s) = "<" /\ close # {} /\ SetMin(close) > 2
            THEN StripTags(SubSeq(s, SetMin(close) + 1, Len(s)))
            ELSE <<Head(s)>> \o StripTags(Tail(s))

_clean_team_name(value) ==
    IF value.t # "str" THEN <<"-">>
    ELSE LET cleaned == Strip(ReplaceText(StripTags(value.s), <<"&", "n", "b", "s", "p", ";">>, <<" ">>))
         IN IF cleaned = <<>> THEN <<"-">> ELSE cleaned

IsLeap(y) == (y % 4 = 0 /\ y % 100 # 0) \/ y % 400 = 0

DaysInMonth(y, m) ==
    IF m = 2 THEN (IF IsLeap(y) THEN 29 ELSE 28)
    ELSE IF m \in {4, 6, 9, 11} THEN 30 ELSE 31

\* days from 1970-01-01 to the civil date y-m-d
DaysFromCivil(y, m, d) ==
    LET yy == IF m <= 2 THEN y - 1 ELSE y
        era == yy \div 400
        yoe == yy - era * 400
        mp == IF m > 2 THEN m - 3 ELSE m + 9
        doy == (153 * mp + 2) \div 5 + d - 1
        doe == yoe * 365 + yoe \div 4 - yoe \div 100 + doy
    IN era * 146097 + doe - 719468

EpochDays == DaysFromCivil(2024, 1, 1)

\* the datetime y-m-d h:mi:s in seconds since 2024-01-01 00:00:00
DateTime(y, m, d, h, mi, sec) ==
    (DaysFromCivil(y, m, d) - EpochDays) * 86400 + h * 3600 + mi * 60 + sec

\* one numeric field of strptime: the digit run r under the directive's
\* pattern (one or two digits, the two-digit forms bounded by lo..hi)
FieldOk(r, lo, hi, oneDigitFrom) ==
    \/ Len(r) = 2 /\ DigitsValue(r) >= lo /\ DigitsValue(r) <= hi
                  /\ (oneDigitFrom = 1 => DigitsValue(r) # 0)
    \/ Len(r) = 1 /\ DigitsValue(r) >= oneDigitFrom

\* the run of digits a text starts with, and what follows it
Field(s) == [run |-> DigitRun(s), rest |-> SubSeq(s, Len(DigitRun(s)) + 1, Len(s))]

\* a text without the whitespace it starts with
LStrip(s) ==
    IF \A i \in 1..Len(s) : s[i] \in Whitespace THEN <<>>
    ELSE SubSeq(s, SetMin({i \in 1..Len(s) : s[i] \notin Whitespace}), Len(s))

\* datetime.strptime(text, "%Y-%m-%d %H:%M:%S"): <<seconds>>, or <<>> for
\* ValueError. %Y is four digits; %m %d %H %M %S take one or two; %d also
\* takes a space and a digit; the blank of the format takes any run of
\* whitespace; the seconds 60 and 61 match and are refused by datetime. The
\* text is read left to right, each directive handing on what it read.
StrpTime(text) ==
    LET Made(yr, mo, dy, hr, mi, sc) ==
            IF yr >= 1 /\ dy <= DaysInMonth(yr, mo) /\ sc <= 59
            THEN <<DateTime(yr, mo, dy, hr, mi, sc)>>
            ELSE <<>>
        Second(yr, mo, dy, hr, mi, f) ==
            IF FieldOk(f.run, 0, 61, 0) /\ f.rest = <<>>
            THEN Made(DigitsValue(yr), DigitsValue(mo), DigitsValue(dy),
                      DigitsValue(hr), DigitsValue(mi), DigitsValue(f.run))
            ELSE <<>>
        Minute(yr, mo, dy, hr, f) ==
            IF FieldOk(f.run, 0, 59, 0) /\ StartsWith(f.rest, <<":">>)
            THEN Second(yr, mo, dy, hr, f.run, Field(Tail(f.rest)))
            ELSE <<>>
        Hour(yr, mo, dy, f) ==
            IF FieldOk(f.run, 0, 23, 0) /\ StartsWith(f.rest, <<":">>)
            THEN Minute(yr, mo, dy, f.run, Field(Tail(f.rest)))
            ELSE <<>>
        Day(yr, mo, f) ==
            IF FieldOk(f.run, 1, 31, 1) /\ f.rest # <<>> /\ Head(f.rest) \in Whitespace
            THEN Hour(yr, mo, f.run, Field(LStrip(f.rest)))
            ELSE <<>>
        DayText(yr, mo, s) ==
            Day(yr, mo,
                IF Len(s) >= 2 /\ s[1] = " " /\ s[2] \in (Digits \ {"0"})
                THEN [run |-> <<s[2]>>, rest |-> SubSeq(s, 3, Len(s))]
                ELSE Field(s))
        Month(yr, f) ==
            IF FieldOk(f.run, 1, 12, 1) /\ StartsWith(f.rest, <<"-">>)
            THEN DayText(yr, f.run, Tail(f.rest))
            ELSE <<>>
        Year(f) ==
            IF Len(f.run) = 4 /\ StartsWith(f.rest, <<"-">>)
            THEN Month(f.run, Field(Tail(f.rest)))
            ELSE <<>>
    IN Year(Field(text))

\* values[i] if len(values) > i else None, i counted from 0
ValueAt(values, i) == IF Len(values) > i THEN values[i + 1] ELSE PyNone

\* Ok(<<>>) for None, Ok(<<entity>>), or the exception that escapes
_build_entry(values) ==
    LET Built(id_int, match_time, status, home_score, away_score, handicap_value,
              goal_line_value) ==
            IF ~id_int.ok
            THEN (IF id_int.exc \in {"TypeError", "ValueError"} THEN Ok(<<>>) ELSE id_int)
            ELSE IF values[9].t # "str" THEN Ok(<<>>)
            ELSE IF match_time = <<>> THEN Ok(<<>>)
            ELSE IF ~status.ok THEN status
            ELSE IF ~home_score.ok THEN home_score
            ELSE IF ~away_score.ok THEN away_score
            ELSE IF ~handicap_value.ok THEN handicap_value
            ELSE IF ~goal_line_value.ok THEN goal_line_value
            ELSE Ok(<<[id |-> IntText(id_int.val),
                       match_time |-> match_time[1],
                       status |-> IF status.val = <<>> THEN 0 ELSE status.val[1],
                       home_team |-> _clean_team_name(ValueAt(values, 4)),
                       away_team |-> _clean_team_name(ValueAt(values, 6)),
                       home_score |-> home_score.val,
                       away_score |-> away_score.val,
                       handicap |-> handicap_value.val,
                       goal_line |-> goal_line_value.val]>>)
    IN IF Len(values) < 9 THEN Ok(<<>>)
       ELSE Built(IntOfValue(values[1]),
                  StrpTime(Strip(values[9].s)),
                  _coerce_int(ValueAt(values, 19)),
                  _coerce_int(ValueAt(values, 12)),
                  _coerce_int(ValueAt(values, 13)),
                  _coerce_float(ValueAt(values, 28)),
                  _coerce_float(ValueAt(values, 34)))

(***************************************************************************)
(* Row extractor                                                           *)
(***************************************************************************)
RowMarker == <<"]", "=", "[">>

\* line[start:end] with start after the first "]=[" and end at the last "]"
RowPayload(line) ==
    SubSeq(line, SetMin(Occurrences(line, RowMarker)) + 3,
           SetMax(Occurrences(line, <<"]">>)) - 1)

\* whether the line is taken as a row
IsRowLine(line) == StartsWith(line, <<"A", "[">>) /\ Contains(line, RowMarker)

\* one turn of the loop: Ok(<<>>) for a line that adds nothing, Ok(<<entry>>)
\* for one that is appended, or the exception _build_entry lets escape
ParseLine(rawLine) ==
    LET line == Strip(rawLine)
    IN IF ~IsRowLine(line) THEN Ok(<<>>)
       ELSE _build_entry(_parse_js_array(RowPayload(line)))

\* the loop: the first line that raises ends it with its exception; else
\* the appended entries in the order of their lines
_parse_bf_dataset(text) ==
    LET Entries(kept) == Ok([i \in 1..Len(kept) |-> kept[i].val[1]])
        Loop(turns) ==
            IF \E i \in 1..Len(turns) : ~turns[i].ok
            THEN turns[SetMin({i \in 1..Len(turns) : ~turns[i].ok})]
            ELSE Entries(SelectSeq(turns, LAMBDA r : r.val # <<>>))
        Turns(lines) == Loop([i \in 1..Len(lines) |-> ParseLine(lines[i])])
    IN Turns(SplitLines(text))

(***************************************************************************)
(* Display formatting                                                      *)
(***************************************************************************)
\* the civil date <<y, m, d>> of a day counted from 1970-01-01
CivilFromDays(days) ==
    LET z == days + 719468
        era == z \div 146097
        doe == z - era * 146097
        yoe == (doe - doe \div 1460 + doe \div 36524 - doe \div 146096) \div 365
        doy == doe - (365 * yoe + yoe \div 4 - yoe \div 100)
        mp == (5 * doy + 2) \div 153
        d == doy - (153 * mp + 2) \div 5 + 1
        m == IF mp < 10 THEN mp + 3 ELSE mp - 9
    IN <<IF m <= 2 THEN yoe + era * 400 + 1 ELSE yoe + era * 400, m, d>>

\* the instant, in seconds since 2024-01-01, of 01:00 UTC on the last Sunday
\* of month m of year y (1970-01-01 was a Thursday)
LastSunday(y, m) ==
    LET last == DaysFromCivil(y, m, 31)
    IN (last - ((last + 4) % 7) - EpochDays) * 86400 + 3600

\* the offset of Europe/Madrid from UTC at instant t, by the rule in force
\* since 1996: summer time between the last Sundays of March and October
MadridOffset(t) ==
    LET InYear(y) == IF t >= LastSunday(y, 3) /\ t < LastSunday(y, 10) THEN 7200 ELSE 3600
    IN InYear(CivilFromDays(t \div 86400 + EpochDays)[1])

\* a naive datetime is taken as UTC, moved to Europe/Madrid and written
\* "%d/%m %H:%M"
_format_match_time(match_time) ==
    LET Written(date, secs) ==
            Pad2(date[3]) \o <<"/">> \o Pad2(date[2]) \o <<" ">>
            \o Pad2(secs \div 3600) \o <<":">> \o Pad2((secs % 3600) \div 60)
        Local(local) == Written(CivilFromDays(local \div 86400 + EpochDays), local % 86400)
    IN Local(match_time + MadridOffset(match_time))

\* round(n / q) for naturals, a tie going to the even neighbour
RoundHalfEven(n, q) ==
    LET lo == n \div q
        twice == 2 * (n % q)
    IN IF twice < q THEN lo
       ELSE IF twice > q THEN lo + 1
       ELSE IF lo % 2 = 0 THEN lo ELSE lo + 1

\* a text of digits without its trailing zeros
TrimZeros(ds) ==
    LET keep == {i \in 1..Len(ds) : ds[i] # "0"}
    IN IF keep = {} THEN <<>> ELSE SubSeq(ds, 1, SetMax(keep))

\* n in exactly w digits, zeros in front
RECURSIVE PadLeft(_, _)
PadLeft(ds, w) == IF Len(ds) >= w THEN ds ELSE PadLeft(<<"0">> \o ds, w)

\* "." and the decimals, or nothing when there are none
DotFraction(ds) == IF ds = <<>> THEN <<>> ELSE <<".">> \o ds

\* f"{value:g}": six significant digits, trailing zeros dropped; scientific
\* notation when the decimal exponent is below -4 or at least 6
FormatG(f) ==
    LET signText == IF f.neg THEN <<"-">> ELSE <<>>
        nd == Len(NatText(f.m))
        rounded == IF nd > 6 THEN RoundHalfEven(f.m, Pow10(nd - 6))
                   ELSE f.m * Pow10(6 - nd)
        carried == rounded = Pow10(6)
        sig == IF carried THEN Pow10(5) ELSE rounded
        ex == IF carried THEN nd - 8 + 1 ELSE nd - 8
        sigText == NatText(sig)
        fixed == IF ex >= 0
                 THEN SubSeq(sigText, 1, ex + 1)
                      \o DotFraction(TrimZeros(SubSeq(sigText, ex + 2, 6)))
                 ELSE <<"0", ".">> \o PadLeft(<<>>, 0 - ex - 1) \o TrimZeros(sigText)
        scientific == <<sigText[1]>> \o DotFraction(TrimZeros(SubSeq(sigText, 2, 6)))
                      \o <<"e">> \o (IF ex < 0 THEN <<"-">> ELSE <<"+">>) \o Pad2(Abs(ex))
    IN CASE f.k = "inf" -> signText \o <<"i", "n", "f">>
         [] f.k = "nan" -> <<"n", "a", "n">>
         [] f.k = "fin" /\ f.m = 0 -> signText \o <<"0">>
         [] f.k = "fin" /\ f.m # 0 ->
               signText \o (IF ex < 0 - 4 \/ ex >= 6 THEN scientific ELSE fixed)

\* the handicap and goal line of an entity are a float or None
_format_line(value) ==
    IF value = <<>> THEN <<"-">>
    ELSE IF value[1].k = "nan" THEN <<"-">>
    ELSE FormatG(value[1])

\* f"{bucket:.1f}" of a finite float
FormatF1(f) ==
    LET tenths == RoundHalfEven(f.m, Scale \div 10)
    IN (IF f.neg THEN <<"-">> ELSE <<>>)
       \o NatText(tenths \div 10) \o <<".", DigitChar(tenths % 10)>>

(***************************************************************************)
(* Handicap normalizer                                                     *)
(***************************************************************************)
\* re.search(r"^[+-]?\d+(?:\.\d+)?$", txt): the matched text as <<text>>, or
\* <<>>; "$" also matches before one final line break
NumberMatch(txt) ==
    LET Decimal(body, f) ==
            IF f.run # <<>>
               /\ (f.rest = <<>>
                   \/ (Head(f.rest) = "." /\ Len(f.rest) >= 2
                       /\ DigitRun(Tail(f.rest)) = Tail(f.rest)))
            THEN <<body>> ELSE <<>>
        OfBody(body) == Decimal(body, Field(Unsigned(body)))
    IN OfBody(IF txt # <<>> /\ txt[Len(txt)] = "\n" THEN SubSeq(txt, 1, Len(txt) - 1) ELSE txt)

\* a float or None, of a text or None
_parse_number_clean(text) ==
    LET Converted(r) == IF r.ok THEN <<r.val>> ELSE <<>>
        Matched(m) == IF m = <<>> THEN <<>> ELSE Converted(FloatOfText(m[1]))
    IN IF text = <<>> THEN <<>>
       ELSE Matched(NumberMatch(
                RemoveChar(RemoveChar(ReplaceChar(Strip(text[1]), ",", "."), "+"), " ")))

\* a finite float as a signed number of units, and back
Signed(f) == IF f.neg THEN 0 - f.m ELSE f.m

RECURSIVE SumSigned(_)
SumSigned(numbers) ==
    IF numbers = <<>> THEN 0 ELSE Signed(Head(numbers)) + SumSigned(Tail(numbers))

\* sum(numbers) / len(numbers); the sum starts from the int 0, so a sum of
\* zeros is +0.0
Mean(numbers) ==
    LET Over(total) == Fin(total < 0, Abs(total) \div Len(numbers))
    IN Over(SumSigned(numbers))

_parse_handicap_to_float(text) ==
    LET Averaged(numbers) ==
            IF \E i \in 1..Len(numbers) : numbers[i] = <<>> THEN <<>>
            ELSE IF numbers = <<>> THEN <<>>
            ELSE <<Mean([i \in 1..Len(numbers) |-> numbers[i][1]])>>
        Parts(parts) == Averaged([i \in 1..Len(parts) |-> _parse_number_clean(<<parts[i]>>)])
        Cleaned(cleaned) ==
            IF Contains(cleaned, <<"/">>)
            THEN Parts(SelectSeq(SplitOn(cleaned, "/"), LAMBDA part : part # <<>>))
            ELSE _parse_number_clean(<<cleaned>>)
    IN IF text = <<>> THEN <<>> ELSE Cleaned(Strip(text[1]))

\* close(a, b): abs(a - b) < 1e-6, in units of 10^-7
close(a, b) == Abs(a - b) < 10

\* variant: the value rounded to the nearest half, quarters not lifted
BucketNearestHalf(value) ==
    IF value = <<>> THEN <<>>
    ELSE IF value[1].m = 0 THEN <<Fin(FALSE, 0)>>
    ELSE <<Fin(value[1].neg, RoundHalfEven(2 * value[1].m, Scale) * (Scale \div 2))>>

\* a float or None, of a finite float or None. On the grid floor(abs_value +
\* 1e-9) is floor(abs_value); 0.26 is 2600000 units. A value at exactly 0.26
\* from a quarter (a fraction of .99) is decided in the code by the rounding
\* of binary floats; the texts of the model stay off that boundary.
_bucket_to_half(value) ==
    IF value = <<>> THEN <<>>
    ELSE IF value[1].m = 0 THEN <<Fin(FALSE, 0)>>
    ELSE LET abs_value == value[1].m
             base == abs_value \div Scale
             fraction == abs_value - base * Scale
             halves == RoundHalfEven(2 * abs_value, Scale)
             floor_bucket == halves \div 2
             near(q) == Abs(abs_value - (floor_bucket * Scale + q)) < 26 * (Scale \div 100)
             bucket ==
                 IF close(fraction, 0) THEN base * Scale
                 ELSE IF close(fraction, Scale \div 2) \/ close(fraction, Scale \div 4)
                         \/ close(fraction, 3 * (Scale \div 4))
                 THEN base * Scale + Scale \div 2
                 ELSE IF halves % 2 = 0 /\ (near(Scale \div 4) \/ near(3 * (Scale \div 4)))
                 THEN floor_bucket * Scale + Scale \div 2
                 ELSE halves * (Scale \div 2)
         IN <<Fin(value[1].neg, bucket)>>

\* A variant of the normalizer that writes the parsed number without
\* bucketing it; ScenarioReturnsA is tested against it.
NormalizeWithoutBucket(text) ==
    LET Written(value) == IF value = <<>> THEN <<>> ELSE <<FormatF1(value[1])>>
    IN Written(_parse_handicap_to_float(text))

\* the bucket text or None, of a text or None
normalize_handicap_to_half_bucket_str(text) ==
    LET Written(bucket) == IF bucket = <<>> THEN <<>> ELSE <<FormatF1(bucket[1])>>
    IN Written(_bucket_to_half(_parse_handicap_to_float(text)))

(***************************************************************************)
(* The normalizer of app.py                                                *)
(***************************************************************************)
\* the character U+2212 (MINUS SIGN), one character of a text
UnicodeMinus == "U+2212"

\* _parse_number_clean of app.py: the minus sign U+2212 is replaced by "-"
\* before the other replacements
app_parse_number_clean(s) ==
    LET Converted(r) == IF r.ok THEN <<r.val>> ELSE <<>>
        Matched(m) == IF m = <<>> THEN <<>> ELSE Converted(FloatOfText(m[1]))
    IN IF s = <<>> THEN <<>>
       ELSE Matched(NumberMatch(
                RemoveChar(RemoveChar(ReplaceChar(ReplaceChar(Strip(s[1]), UnicodeMinus, "-"),
                                                  ",", "."), "+"), " ")))

\* _parse_handicap_to_float of app.py
app_parse_handicap_to_float(text) ==
    LET Averaged(nums) ==
            IF \E i \in 1..Len(nums) : nums[i] = <<>> THEN <<>>
            ELSE IF nums = <<>> THEN <<>>
            ELSE <<Mean([i \in 1..Len(nums) |-> nums[i][1]])>>
        Parts(parts) == Averaged([i \in 1..Len(parts) |-> app_parse_number_clean(<<parts[i]>>)])
        Cleaned(t) ==
            IF Contains(t, <<"/">>)
            THEN Parts(SelectSeq(SplitOn(t, "/"), LAMBDA p : p # <<>>))
            ELSE app_parse_number_clean(<<RemoveChar(t, "+")>>)
    IN IF text = <<>> THEN <<>> ELSE Cleaned(Strip(text[1]))

\* normalize_handicap_to_half_bucket_str of app.py (its _bucket_to_half is
\* the code of the feed client's)
app_normalize_handicap_to_half_bucket_str(text) ==
    LET Written(b) == IF b = <<>> THEN <<>> ELSE <<FormatF1(b[1])>>
    IN Written(_bucket_to_half(app_parse_handicap_to_float(text)))

(***************************************************************************)
(* Filter options                                                          *)
(***************************************************************************)
\* the set comprehension of collect_handicap_options: the bucket texts of the
\* records (match.get("handicap") is <<>> for a record without the key),
\* None left out
RawValues(matches) ==
    {normalize_handicap_to_half_bucket_str(matches[i].handicap)[1] :
        i \in {j \in 1..Len(matches) :
                  normalize_handicap_to_half_bucket_str(matches[j].handicap) # <<>>}}

\* key=lambda item: float(item), as a signed number of units
OptionKey(item) == Signed(FloatOfText(item).val)

\* variant: the options compared in descending order
OptionsDescending(a, b) == OptionKey(a) >= OptionKey(b)

\* a may stand before b in the sorted list
OptionsInOrder(a, b) == OptionKey(a) <= OptionKey(b)

\* sorted(raw_values, key=...): the lists sorted() can return; texts of equal
\* key ("-0.0" and "0.0") keep the order in which the set yields them, which
\* is any order
collect_handicap_options(matches) ==
    {out \in [1..Cardinality(RawValues(matches)) -> RawValues(matches)] :
        /\ \A i, j \in DOMAIN out : i < j => out[i] # out[j]
        /\ \A i, j \in DOMAIN out : i < j => OptionsInOrder(out[i], out[j])}

(***************************************************************************)
(* Upstream: what _download_bf_js can return                               *)
(***************************************************************************)
Commas(n) == [i \in 1..n |-> ","]

\* "YYYY-MM-DD HH:MM:SS"
DateText(y, m, d, h, mi, sec) ==
    NatText(y) \o <<"-">> \o Pad2(m) \o <<"-">> \o Pad2(d) \o <<" ">>
    \o Pad2(h) \o <<":">> \o Pad2(mi) \o <<":">> \o Pad2(sec)

\* one row of the feed: the id at index 0, the names at 4 and 6, the kickoff
\* at 8, the scores at 12 and 13, the status at 19, the handicap at 28 (a
\* closing quote followed by a comma leaves an empty token behind it)
FeedRow(id, home, away, kickoff, hs, as, status, handicap) ==
    <<"A", "[", "1", "]", "=", "[">> \o id \o <<",", "0", ",", "0", ",", "0", ",", "'">>
    \o home \o <<"'", ",", "'">> \o away \o <<"'", ",", "'">> \o kickoff \o <<"'">>
    \o Commas(3) \o hs \o <<",">> \o as \o Commas(6) \o status \o Commas(9)
    \o handicap \o <<"]">>

Lines(rows) ==
    IF rows = <<>> THEN <<>>
    ELSE LET joined[i \in 1..Len(rows)] ==
                 IF i = 1 THEN rows[1] ELSE joined[i - 1] \o <<"\n">> \o rows[i]
         IN joined[Len(rows)]

\* the clock at the start: 2024-01-01 10:00:00
StartNow == DateTime(2024, 1, 1, 10, 0, 0)

\* A kicks off two hours ahead with handicap 0.25, B one hour ahead with
\* handicap 1, C has seven tokens
RowA == FeedRow(<<"1", "0", "1">>, <<"H", "a">>, <<"A", "a">>, DateText(2024, 1, 1, 12, 0, 0),
                <<>>, <<>>, <<"0">>, <<"0", ".", "2", "5">>)

RowB == FeedRow(<<"1", "0", "2">>, <<"H", "b">>, <<"A", "b">>, DateText(2024, 1, 1, 11, 0, 0),
                <<>>, <<>>, <<"0">>, <<"1">>)

RowC == <<"A", "[", "3", "]", "=", "[", "1", "0", "3", ",", "1", ",", "2", ",", "3", ",",
          "4", ",", "5", ",", "6", "]">>

FeedScenario == Lines(<<RowA, RowB, RowC>>)

\* finished, upcoming and in-between rows: kickoffs before, at and after the
\* instants the clock takes, two of them equal, every status class, a missing
\* score, handicaps in and out of the bucket 0.5
FeedMixed ==
    Lines(<<
      FeedRow(<<"1">>, <<"H", "1">>, <<"<", "b", ">", "A", "1", "<", "/", "b", ">">>,
              DateText(2024, 1, 1, 9, 0, 0), <<"2">>, <<"1">>, <<"1">>, <<"0", ".", "5">>),
      FeedRow(<<"2">>, <<"H", "2">>, <<"A", "2">>,
              DateText(2024, 1, 1, 10, 1, 0), <<"0">>, <<"0">>, <<"2">>, <<"0", ".", "7", "5">>),
      FeedRow(<<"3">>, <<"H", "3">>, <<"A", "3">>,
              DateText(2024, 1, 1, 9, 0, 0), <<"3">>, <<>>, <<"3">>, <<"0", ".", "2", "5">>),
      FeedRow(<<"4">>, <<"H", "4">>, <<"A", "4">>,
              DateText(2024, 1, 1, 8, 0, 0), <<>>, <<>>, <<"0">>, <<"-", "0", ".", "5">>),
      FeedRow(<<"5">>, <<"H", "5">>, <<"A", "5">>,
              DateText(2024, 1, 1, 11, 0, 0), <<"1">>, <<"1">>, <<"5">>, <<"0", ".", "2", "5">>),
      FeedRow(<<"6">>, <<"H", "6">>, <<"A", "6">>,
              DateText(2024, 1, 1, 9, 0, 0), <<"1">>, <<"3">>, <<"4">>, <<>>),
      FeedRow(<<"7">>, <<"H", "7">>, <<"A", "7">>,
              DateText(2024, 1, 1, 8, 0, 0), <<"0">>, <<"2">>, <<"1">>, <<"0", ".", "5">>),
      FeedRow(<<"8">>, <<"H", "8">>, <<"A", "8">>,
              DateText(2024, 1, 1, 10, 0, 30), <<>>, <<>>, <<>>, <<"0", ".", "5">>)
    >>)

\* rows that the builder refuses among rows it accepts: a line that is no
\* row, an id that is no number, a kickoff that is no date, seven tokens
FeedRejects ==
    Lines(<<
      FeedRow(<<"2", "1">>, <<"H">>, <<"A">>, DateText(2024, 1, 1, 10, 30, 0),
              <<>>, <<>>, <<"0">>, <<"1">>),
      <<"/", "/", " ", "f", "e", "e", "d">>,
      FeedRow(<<"x">>, <<"H">>, <<"A">>, DateText(2024, 1, 1, 10, 30, 0),
              <<>>, <<>>, <<"0">>, <<"1">>),
      FeedRow(<<"2", "2">>, <<"H">>, <<"A">>, <<"s", "o", "o", "n">>,
              <<>>, <<>>, <<"0">>, <<"1">>),
      RowC,
      FeedRow(<<"2", "3">>, <<"H">>, <<"A">>, DateText(2024, 1, 1, 9, 30, 0),
              <<"1">>, <<"0">>, <<"1">>, <<"a", "b", "c">>)
    >>)

\* a row whose id is the float 1.0e999 after a row that is accepted
FeedInfId ==
    Lines(<<
      RowB,
      FeedRow(<<"1", ".", "0", "e", "9", "9", "9">>, <<"H">>, <<"A">>,
              DateText(2024, 1, 1, 11, 0, 0), <<>>, <<>>, <<"0">>, <<"1">>)
    >>)

\* a row whose status is the float 1.0e999
FeedInfStatus ==
    Lines(<<
      FeedRow(<<"3", "1">>, <<"H">>, <<"A">>, DateText(2024, 1, 1, 11, 0, 0),
              <<>>, <<>>, <<"1", ".", "0", "e", "9", "9", "9">>, <<"1">>),
      RowA
    >>)

FeedEmpty == <<>>

\* how many rows the long feed has: more than the default page of 20
ManyRows == 22

\* upcoming rows only, a minute apart from 12:01 on, the handicaps 0.5 and 1
\* in turn
FeedMany ==
    Lines([i \in 1..ManyRows |->
              FeedRow(NatText(200 + i), <<"H">>, <<"A">>, DateText(2024, 1, 1, 12, i, 0),
                      <<>>, <<>>, <<"0">>,
                      IF i % 2 = 0 THEN <<"0", ".", "5">> ELSE <<"1">>)])

\* rows with a status that is neither 0 nor one of 1..4, kicking off before,
\* at and after the instants the clock takes, with and without scores
FeedUnknown ==
    Lines(<<
      FeedRow(<<"3", "1">>, <<"H">>, <<"A">>, DateText(2024, 1, 1, 9, 0, 0),
              <<"2">>, <<"2">>, <<"5">>, <<"0", ".", "5">>),
      FeedRow(<<"3", "2">>, <<"H">>, <<"A">>, DateText(2024, 1, 1, 11, 30, 0),
              <<"1">>, <<"0">>, <<"5">>, <<"0", ".", "5">>),
      FeedRow(<<"3", "3">>, <<"H">>, <<"A">>, DateText(2024, 1, 1, 9, 30, 0),
              <<>>, <<>>, <<"-", "1">>, <<"1">>),
      FeedRow(<<"3", "4">>, <<"H">>, <<"A">>, DateText(2024, 1, 1, 10, 0, 0),
              <<"0">>, <<"0">>, <<"9">>, <<"1">>)
    >>)

Feeds ==
    {FeedScenario, FeedMixed, FeedRejects, FeedInfId, FeedInfStatus, FeedEmpty, FeedMany,
     FeedUnknown}

\* None for a transport failure, or the text of the response
Upstream == {<<>>} \cup {<<feed>> : feed \in Feeds}

\* _parse_bf_dataset of each feed, computed once
Parsed == [feed \in Feeds |-> _parse_bf_dataset(feed)]

(***************************************************************************)
(* Dataset cache                                                           *)
(***************************************************************************)
_CACHE_TTL_SECONDS == 60

\* _BF_CACHE = {"timestamp": None, "entries": None}
EmptyCache == [timestamp |-> <<>>, entries |-> <<>>]

\* the early return: both halves cached and younger than the TTL
IsFresh(c, t) ==
    /\ c.entries # <<>>
    /\ c.timestamp # <<>>
    /\ t - c.timestamp[1] < _CACHE_TTL_SECONDS

\* A variant of _fetch_bf_dataset that stores what it returns on a failed
\* download too; DegradesOnFailure is tested against it.
FetchCachingFailure(c, t, raw) ==
    IF IsFresh(c, t)
    THEN [result |-> Ok(c.entries[1]), cache |-> c, downloads |-> 0]
    ELSE IF raw = <<>>
    THEN [result |-> Ok(IF c.entries = <<>> THEN <<>> ELSE c.entries[1]),
          cache |-> [timestamp |-> <<t>>,
                     entries |-> IF c.entries = <<>> THEN <<<<>>>> ELSE c.entries],
          downloads |-> 1]
    ELSE IF ~Parsed[raw[1]].ok
    THEN [result |-> Parsed[raw[1]], cache |-> c, downloads |-> 1]
    ELSE [result |-> Parsed[raw[1]],
          cache |-> [timestamp |-> <<t>>, entries |-> <<Parsed[raw[1]].val>>],
          downloads |-> 1]

\* One call at clock t on cache c, raw being what _download_bf_js returns if
\* it is called: the result (a list, or the exception that escapes), the
\* cache afterwards and the number of downloads made.
_fetch_bf_dataset(c, t, raw) ==
    LET Store(parsed) ==
            IF ~parsed.ok THEN [result |-> parsed, cache |-> c, downloads |-> 1]
            ELSE [result |-> parsed,
                  cache |-> [timestamp |-> <<t>>, entries |-> <<parsed.val>>],
                  downloads |-> 1]
    IN IF IsFresh(c, t)
       THEN [result |-> Ok(c.entries[1]), cache |-> c, downloads |-> 0]
       ELSE IF raw = <<>>
       THEN [result |-> Ok(IF c.entries = <<>> THEN <<>> ELSE c.entries[1]),
             cache |-> c, downloads |-> 1]
       ELSE Store(Parsed[raw[1]])

(***************************************************************************)
(* Feed assembler                                                          *)
(***************************************************************************)
\* A variant of _ensure_positive_int without the upper clamp;
\* PaginationClamped is tested against it.
EnsureUnclamped(value, default, maximum) == IF value <= 0 THEN default ELSE value

_ensure_positive_int(value, default, maximum) ==
    IF value <= 0 THEN default ELSE IF value < maximum THEN value ELSE maximum

\* list.sort(key=match_time), and with reverse=True: a stable sort, equal
\* keys keeping the order they came in
SortedPlace(list, i, reverse) ==
    Cardinality({j \in 1..Len(list) :
                    IF reverse THEN list[j].match_time > list[i].match_time
                    ELSE list[j].match_time < list[i].match_time})
    + Cardinality({j \in 1..(i - 1) : list[j].match_time = list[i].match_time}) + 1

SortByKickoff(list, reverse) ==
    [k \in 1..Len(list) |->
        list[CHOOSE i \in 1..Len(list) : SortedPlace(list, i, reverse) = k]]

\* A variant of the filter step that keeps a candidate whose own handicap
\* does not normalize; UnbucketedFilteredOut is tested against it.
FilterKeepingUnbucketed(candidates, handicap_filter) ==
    IF handicap_filter = <<>> \/ handicap_filter = <<<<>>>> THEN candidates
    ELSE IF normalize_handicap_to_half_bucket_str(handicap_filter) = <<>> THEN candidates
    ELSE SelectSeq(candidates,
                   LAMBDA entry :
                       \/ normalize_handicap_to_half_bucket_str(
                              <<_format_line(entry.handicap)>>) = <<>>
                       \/ normalize_handicap_to_half_bucket_str(
                              <<_format_line(entry.handicap)>>)
                          = normalize_handicap_to_half_bucket_str(handicap_filter))

\* A variant of the filter step that keeps nothing when the filter text does
\* not normalize; InvalidFilterFailsOpen is tested against it.
FilterFailingClosed(candidates, handicap_filter) ==
    IF handicap_filter = <<>> \/ handicap_filter = <<<<>>>> THEN candidates
    ELSE SelectSeq(candidates,
                   LAMBDA entry :
                       /\ normalize_handicap_to_half_bucket_str(handicap_filter) # <<>>
                       /\ normalize_handicap_to_half_bucket_str(
                              <<_format_line(entry.handicap)>>)
                          = normalize_handicap_to_half_bucket_str(handicap_filter))

\* the filter step: skipped unless the filter text is given, is not empty
\* and normalizes
ApplyHandicapFilter(candidates, handicap_filter) ==
    LET Matching(target) ==
            IF target = <<>> THEN candidates
            ELSE SelectSeq(candidates,
                           LAMBDA entry :
                               normalize_handicap_to_half_bucket_str(
                                   <<_format_line(entry.handicap)>>) = target)
    IN IF handicap_filter = <<>> \/ handicap_filter = <<<<>>>> THEN candidates
       ELSE Matching(normalize_handicap_to_half_bucket_str(handicap_filter))

\* candidates[offset : offset + limit], offset >= 0 and limit >= 1
Slice(candidates, offset, limit) ==
    SubSeq(candidates, offset + 1,
           IF offset + limit < Len(candidates) THEN offset + limit ELSE Len(candidates))

_serialize_match(entry, include_score) ==
    LET Payload(time, handicap, goal_line) ==
            IF include_score /\ entry.home_score # <<>> /\ entry.away_score # <<>>
            THEN [id |-> entry.id,
                  time |-> time,
                  home_team |-> entry.home_team,
                  away_team |-> entry.away_team,
                  handicap |-> handicap,
                  goal_line |-> goal_line,
                  score |-> IntText(entry.home_score[1]) \o <<"-">>
                            \o IntText(entry.away_score[1])]
            ELSE [id |-> entry.id,
                  time |-> time,
                  home_team |-> entry.home_team,
                  away_team |-> entry.away_team,
                  handicap |-> handicap,
                  goal_line |-> goal_line]
    IN Payload(_format_match_time(entry.match_time), _format_line(entry.handicap),
               _format_line(entry.goal_line))

\* A variant of the upcoming test that takes a started match for an upcoming
\* one; UpcomingOnly is tested against it.
IsUpcomingOrStarted(entry, t) == entry.status = 0 \/ entry.match_time <= t

\* variant: every match that is not finished counts as upcoming
IsUpcomingUnlessFinished(entry, t) ==
    entry.status \notin {1, 2, 3, 4} \/ entry.match_time >= t

\* if entry["status"] == 0 or entry["match_time"] >= now
IsUpcoming(entry, t) == entry.status = 0 \/ entry.match_time >= t

\* A variant of the finished test that does not ask for the scores;
\* FinishedOnly is tested against it.
IsFinishedUnscored(entry, t) == entry.status \in {1, 2, 3, 4} /\ entry.match_time <= t

\* A variant of the finished test that does not look at the kickoff;
\* ViewsMeetAtKickoffOnly is tested against it.
IsFinishedAnytime(entry, t) ==
    /\ entry.status \in {1, 2, 3, 4}
    /\ entry.home_score # <<>>
    /\ entry.away_score # <<>>

IsFinished(entry, t) ==
    /\ entry.status \in {1, 2, 3, 4}
    /\ entry.home_score # <<>>
    /\ entry.away_score # <<>>
    /\ entry.match_time <= t

\* max(0, offset)
ClampOffset(offset) == IF offset > 0 THEN offset ELSE 0

\* the candidates of fetch_upcoming_matches, sorted
UpcomingCandidates(dataset, t) ==
    SortByKickoff(SelectSeq(dataset, LAMBDA entry : IsUpcoming(entry, t)), FALSE)

\* the candidates of fetch_finished_matches, sorted
FinishedCandidates(dataset, t) ==
    SortByKickoff(SelectSeq(dataset, LAMBDA entry : IsFinished(entry, t)), TRUE)

\* A variant of the upcoming query that slices before it filters;
\* FilterBeforeSlice is tested against it.
UpcomingSliceThenFilter(dataset, t, limit, offset, handicap_filter) ==
    ApplyHandicapFilter(Slice(UpcomingCandidates(dataset, t), ClampOffset(offset),
                              _ensure_positive_int(limit, 20, 200)),
                        handicap_filter)

\* the body of fetch_upcoming_matches after the dataset is there: the
\* entities of the slice, in order
UpcomingSlice(dataset, t, limit, offset, handicap_filter) ==
    Slice(ApplyHandicapFilter(UpcomingCandidates(dataset, t), handicap_filter),
          ClampOffset(offset), _ensure_positive_int(limit, 20, 200))

\* the same of fetch_finished_matches
FinishedSlice(dataset, t, limit, offset, handicap_filter) ==
    Slice(ApplyHandicapFilter(FinishedCandidates(dataset, t), handicap_filter),
          ClampOffset(offset), _ensure_positive_int(limit, 20, 200))

Serialized(sliced, include_score) ==
    [i \in 1..Len(sliced) |-> _serialize_match(sliced[i], include_score)]

(***************************************************************************)
(* The calls                                                               *)
(***************************************************************************)
\* how far the clock runs: MaxTicks steps of half a TTL
MaxTicks == 3

TickSeconds == _CACHE_TTL_SECONDS \div 2

\* the arguments the callers pass
Limits == {0, 1, 10, 500}

Offsets == {0 - 5, 0, 1}

FilterTexts ==
    {<<>>, <<<<>>>>, <<<<"a", "b", "c">>>>, <<<<"0", ".", "5">>>>, <<<<"1">>>>}

\* no call has returned and not been taken yet
NoCall ==
    [op |-> "none", limit |-> 0, offset |-> 0, handicap_filter |-> <<>>, at |-> 0,
     limit_used |-> 0, offset_used |-> 0,
     raw |-> <<>>, before |-> EmptyCache, refreshedBefore |-> <<>>, downloads |-> 0,
     dataset |-> Ok(<<>>), sliced |-> <<>>, result |-> Ok(<<>>)]

\* the callers that can be inside _fetch_bf_dataset at once
Threads == {1, 2}

\* a caller that is not inside _fetch_bf_dataset
Idle ==
    [pc |-> "idle", now |-> 0, cached_timestamp |-> <<>>, cached_entries |-> <<>>,
     entries |-> <<>>, seen |-> <<>>, stamp |-> <<>>]

\* which refresh wrote each half of _BF_CACHE last, a refresh being named by
\* its thread and the clock it read at line 66 (<<>>: not written yet); a
\* thread keeps in stamp the writer of the timestamp it read at line 67
Unwritten == [timestamp |-> <<>>, entries |-> <<>>]

\* _parse_js_array is not running
NoScan == [entry |-> <<>>, at |-> 0, st |-> TokInit, result |-> <<>>]

\* no function of the normalizer or the record builder has been applied
NoUnit == [fn |-> "none", input |-> <<>>, output |-> <<>>, done |-> FALSE]

\* preview_store.json, _STORAGE_LOCK and the clock of datetime.now: no file,
\* the lock free (0, or the caller that holds it)
NoStorage == [file |-> <<>>, _STORAGE_LOCK |-> 0, clock |-> 1]

\* the threads that call the preview store
Callers == {1, 2, 3}

\* a caller that has not called yet
NotCalling ==
    [pc |-> "away", fn |-> "none", entries |-> <<>>, match_id |-> <<>>,
     payload_type |-> "preview", timestamp |-> 0, serializable_entries |-> <<>>,
     store |-> <<>>, wrote |-> FALSE, result |-> <<>>]

\* the module globals of the transport: no session built, both locks free
NoTransport ==
    [module |-> "none", _requests_session |-> <<>>, built |-> 0,
     _requests_session_lock |-> 0, _requests_fetch_lock |-> 0]

\* the callers that can be inside the transport at once
Workers == {1, 2}

\* a caller that is not inside the transport
Resting ==
    [pc |-> "idle", fn |-> "none", session |-> <<>>, missing |-> FALSE,
     outcome |-> "none", result |-> <<>>, calls |-> 0]

Init ==
    /\ now = StartNow
    /\ cache = EmptyCache
    /\ refreshed = <<>>
    /\ call = NoCall
    /\ threads = [t \in Threads |-> Idle]
    /\ scan = NoScan
    /\ unit = NoUnit
    /\ transport = NoTransport
    /\ workers = [w \in Workers |-> Resting]
    /\ written = Unwritten
    /\ storage = NoStorage
    /\ callers = [c \in Callers |-> NotCalling]

\* what the transport can answer to this call: it is asked only when the
\* cache is not fresh
Answers == IF IsFresh(cache, now) THEN {<<>>} ELSE Upstream

\* the record of one query, and the state it leaves
\* A variant of the query that sorts the list it was handed, in place;
\* QueriesLeaveSnapshot is tested against it.
DatasetSortedInPlace(dataset, reverse) == SortByKickoff(dataset, reverse)

\* the list `dataset` after the query: the comprehension builds the list
\* `candidates`, which is what the sort, the filter and the slice work on,
\* and _serialize_match builds a new dict, so `dataset` is as it was
DatasetLeft(dataset, reverse) == dataset

\* _fetch_bf_dataset hands out the list object the cache holds, so what the
\* query leaves in `dataset` is what the cache holds afterwards
Query(op, limit, offset, handicap_filter, raw) ==
    LET Returned(fetch, sliced) ==
            /\ cache' = IF fetch.result.ok /\ fetch.cache.entries = <<fetch.result.val>>
                        THEN [fetch.cache EXCEPT
                                 !.entries = <<DatasetLeft(fetch.result.val,
                                                           op = "finished")>>]
                        ELSE fetch.cache
            /\ refreshed' = IF fetch.downloads = 1 /\ raw # <<>> /\ fetch.result.ok
                            THEN <<[at |-> now, entries |-> fetch.result.val]>>
                            ELSE refreshed
            /\ call' = [op |-> op, limit |-> limit, offset |-> offset,
                        handicap_filter |-> handicap_filter, at |-> now, raw |-> raw,
                        limit_used |-> _ensure_positive_int(limit, 20, 200),
                        offset_used |-> ClampOffset(offset),
                        before |-> cache, refreshedBefore |-> refreshed,
                        downloads |-> fetch.downloads, dataset |-> fetch.result,
                        sliced |-> sliced,
                        result |-> IF fetch.result.ok
                                   THEN Ok(Serialized(sliced, op = "finished"))
                                   ELSE fetch.result]
        Fetched(fetch) ==
            Returned(fetch,
                     IF ~fetch.result.ok THEN <<>>
                     ELSE IF op = "upcoming"
                     THEN UpcomingSlice(fetch.result.val, now, limit, offset, handicap_filter)
                     ELSE FinishedSlice(fetch.result.val, now, limit, offset, handicap_filter))
    IN /\ call = NoCall
       /\ Fetched(_fetch_bf_dataset(cache, now, raw))
       /\ UNCHANGED <<now, threads>>
       /\ UNCHANGED <<scan, unit, transport, workers>>
       /\ UNCHANGED <<written, storage, callers>>

fetch_upcoming_matches ==
    \E limit \in Limits, offset \in Offsets, handicap_filter \in FilterTexts, raw \in Answers :
        Query("upcoming", limit, offset, handicap_filter, raw)

fetch_finished_matches ==
    \E limit \in Limits, offset \in Offsets, handicap_filter \in FilterTexts, raw \in Answers :
        Query("finished", limit, offset, handicap_filter, raw)

\* the caller takes the records (or the exception) of the call
Return ==
    /\ call # NoCall
    /\ call' = NoCall
    /\ UNCHANGED <<now, cache, refreshed, threads>>
    /\ UNCHANGED <<scan, unit, transport, workers>>
    /\ UNCHANGED <<written, storage, callers>>

\* the clock moves on between calls
Tick ==
    /\ call = NoCall
    /\ now < StartNow + MaxTicks * TickSeconds
    /\ now' = now + TickSeconds
    /\ UNCHANGED <<cache, refreshed, call, threads>>
    /\ UNCHANGED <<scan, unit, transport, workers>>
    /\ UNCHANGED <<written, storage, callers>>

Next == fetch_upcoming_matches \/ fetch_finished_matches \/ Return \/ Tick

Spec == Init /\ [][Next]_vars

(***************************************************************************)
(* Overlapping calls of _fetch_bf_dataset: nothing guards _BF_CACHE, so    *)
(* the reads and writes of two callers interleave statement by statement   *)
(***************************************************************************)
\* what the transport answers to an overlapping caller: a failure or one of
\* two feeds
ThreadAnswers == {<<>>, <<FeedScenario>>, <<FeedRejects>>}

\* now = utcnow(); cached_timestamp = _BF_CACHE.get("timestamp")
Begin(t) ==
    /\ call = NoCall
    /\ threads[t].pc = "idle"
    /\ threads' = [threads EXCEPT ![t] = [Idle EXCEPT !.pc = "read_entries",
                                                       !.now = now,
                                                       !.cached_timestamp = cache.timestamp,
                                                       !.seen = refreshed,
                                                       !.stamp = written.timestamp]]
    /\ UNCHANGED <<now, cache, refreshed, call>>
    /\ UNCHANGED <<scan, unit, transport, workers>>
    /\ UNCHANGED <<written, storage, callers>>

\* cached_entries = _BF_CACHE.get("entries"), and the early return
ReadEntries(t) ==
    /\ threads[t].pc = "read_entries"
    /\ threads' = [threads EXCEPT ![t] =
                      IF IsFresh([timestamp |-> threads[t].cached_timestamp,
                                  entries |-> cache.entries], threads[t].now)
                      THEN Idle
                      ELSE [@ EXCEPT !.pc = "download", !.cached_entries = cache.entries]]
    /\ UNCHANGED <<now, cache, refreshed, call>>
    /\ UNCHANGED <<scan, unit, transport, workers>>
    /\ UNCHANGED <<written, storage, callers>>

\* raw = _download_bf_js(), the return on failure, and _parse_bf_dataset(raw)
Download(t) ==
    /\ threads[t].pc = "download"
    /\ \E raw \in ThreadAnswers :
          threads' = [threads EXCEPT ![t] =
                         IF raw = <<>> THEN Idle
                         ELSE IF ~Parsed[raw[1]].ok THEN Idle
                         ELSE [@ EXCEPT !.pc = "store_timestamp",
                                        !.entries = <<Parsed[raw[1]].val>>]]
    /\ UNCHANGED <<now, cache, refreshed, call>>
    /\ UNCHANGED <<scan, unit, transport, workers>>
    /\ UNCHANGED <<written, storage, callers>>

\* _BF_CACHE["timestamp"] = now
StoreTimestamp(t) ==
    /\ threads[t].pc = "store_timestamp"
    /\ cache' = [cache EXCEPT !.timestamp = <<threads[t].now>>]
    /\ written' = [written EXCEPT !.timestamp = <<t, threads[t].now>>]
    /\ threads' = [threads EXCEPT ![t].pc = "store_entries"]
    /\ UNCHANGED <<now, refreshed, call>>
    /\ UNCHANGED <<scan, unit, transport, workers>>
    /\ UNCHANGED <<storage, callers>>

\* _BF_CACHE["entries"] = entries; return entries. The refresh is complete:
\* refreshed keeps the complete refresh that started last.
StoreEntries(t) ==
    /\ threads[t].pc = "store_entries"
    /\ cache' = [cache EXCEPT !.entries = threads[t].entries]
    /\ refreshed' = IF refreshed = <<>> \/ refreshed[1].at <= threads[t].now
                    THEN <<[at |-> threads[t].now, entries |-> threads[t].entries[1]]>>
                    ELSE refreshed
    /\ written' = [written EXCEPT !.entries = <<t, threads[t].now>>]
    /\ threads' = [threads EXCEPT ![t] = Idle]
    /\ UNCHANGED <<now, call>>
    /\ UNCHANGED <<scan, unit, transport, workers>>
    /\ UNCHANGED <<storage, callers>>

NextThreads ==
    \/ \E t \in Threads :
          Begin(t) \/ ReadEntries(t) \/ Download(t) \/ StoreTimestamp(t) \/ StoreEntries(t)
    \/ Tick

SpecThreads == Init /\ [][NextThreads]_vars

(***************************************************************************)
(* _parse_js_array one character at a time: the payloads are all the texts *)
(* of up to MaxPayload characters over PayloadChars, and three payloads    *)
(* written out                                                             *)
(***************************************************************************)
MaxPayload == 4

PayloadChars == {"1", "a", ",", "'", "\\", " "}

\* 1,'Team, A',undefined,True
TeamPayload == <<"1", ",", "'", "T", "e", "a", "m", ",", " ", "A", "'", ",", "u", "n", "d", "e", "f", "i", "n", "e", "d", ",", "T", "r", "u", "e">>

\* 'a\',b' : a quoted segment with an escaped quote and a comma
QuotedPayload == <<"'", "a", "\\", "'", ",", "b", "'">>

\* 7,True,,x
PlainPayload == <<"7", ",", "T", "r", "u", "e", ",", ",", "x">>

\* ab'cd' : bare text before a quoted segment
BarePayload == <<"a", "b", "'", "c", "d", "'">>

\* '12','True','undefined',1.5, 12 ,x.y,False,'op : quoted texts that read
\* like other types, bare tokens of every type, a segment left open
TypedPayload ==
    <<"'", "1", "2", "'", ",", "'", "T", "r", "u", "e", "'", ",",
      "'", "u", "n", "d", "e", "f", "i", "n", "e", "d", "'", ",", "1", ".", "5", ",",
      " ", "1", "2", " ", ",", "x", ".", "y", ",", "F", "a", "l", "s", "e", ",", "'", "o", "p">>

Payloads ==
    UNION {[1..n -> PayloadChars] : n \in 0..MaxPayload}
        \cup {TeamPayload, QuotedPayload, PlainPayload, BarePayload, TypedPayload}

InitTokenizer ==
    /\ now = StartNow
    /\ cache = EmptyCache
    /\ refreshed = <<>>
    /\ call = NoCall
    /\ threads = [t \in Threads |-> Idle]
    /\ scan \in {[NoScan EXCEPT !.entry = entry] : entry \in Payloads}
    /\ unit = NoUnit
    /\ transport = NoTransport
    /\ workers = [w \in Workers |-> Resting]
    /\ written = Unwritten
    /\ storage = NoStorage
    /\ callers = [c \in Callers |-> NotCalling]

\* for ch in entry: one turn of the loop
ScanChar ==
    /\ scan.result = <<>>
    /\ scan.at < Len(scan.entry)
    /\ scan' = [scan EXCEPT !.at = @ + 1, !.st = TokStep(@, scan.entry[scan.at + 1])]
    /\ UNCHANGED <<now, cache, refreshed, call, threads, unit, transport, workers>>
    /\ UNCHANGED <<written, storage, callers>>

\* the flush after the loop, and the typing of the flushed tokens
ScanEnd ==
    /\ scan.result = <<>>
    /\ scan.at = Len(scan.entry)
    /\ scan' = [scan EXCEPT !.result =
                   <<[i \in 1..Len(TokFlush(scan.st)) |-> ClassifyToken(TokFlush(scan.st)[i])]>>]
    /\ UNCHANGED <<now, cache, refreshed, call, threads, unit, transport, workers>>
    /\ UNCHANGED <<written, storage, callers>>

NextTokenizer == ScanChar \/ ScanEnd

SpecTokenizer == InitTokenizer /\ [][NextTokenizer]_vars

(***************************************************************************)
(* The markup parsers of app.py. The document BeautifulSoup has read is a   *)
(* list of tr elements, each with what the parsers ask of it: the id and    *)
(* state attributes, the number of td cells, the td named timeData and its *)
(* data-t attribute, the texts of the two team anchors, the b tag and the   *)
(* text of the seventh cell, the odds attribute. An attribute or an element *)
(* that is not there is <<>>.                                              *)
(***************************************************************************)
NotAvailable == <<"N", "/", "A">>

\* soup.find_all('tr', id=lambda x: x and x.startswith('tr1_'))
MatchRows(html_content) ==
    SelectSeq(html_content,
              LAMBDA row : /\ row.id # <<>> /\ row.id[1] # <<>>
                           /\ StartsWith(row.id[1], <<"t", "r", "1", "_">>))

\* row.get('id', '').replace('tr1_', '')
MatchId(row) == ReplaceText(row.id[1], <<"t", "r", "1", "_">>, <<>>)

\* odds_data[k] if len(odds_data) > k else "N/A", odds_data being
\* row.get('odds', '').split(',')
OddsAt(row, k) ==
    LET At(odds_data) == IF Len(odds_data) > k THEN odds_data[k + 1] ELSE NotAvailable
    IN At(SplitOn(IF row.odds = <<>> THEN <<>> ELSE row.odds[1], ","))

\* tag.text.strip() if tag else "N/A"
TeamText(tag) == IF tag = <<>> THEN NotAvailable ELSE Strip(tag[1])

\* the text of the score cell: of its b tag when it has one
ScoreText(row) == IF row.score_b # <<>> THEN Strip(row.score_b[1]) ELSE Strip(row.score_text)

\* re.match(r'^\d+\s*-\s*\d+$', score_text)
ScoreMatch(score_text) ==
    LET Away(rest) ==
            /\ DigitRun(rest) # <<>>
            /\ \/ DigitRun(rest) = rest
               \/ DigitRun(rest) \o <<"\n">> = rest
        Dash(rest) == rest # <<>> /\ Head(rest) = "-" /\ Away(LStrip(Tail(rest)))
        Home(f) == f.run # <<>> /\ Dash(LStrip(f.rest))
    IN Home(Field(score_text))

\* one turn of the loop of parse_main_page_matches: <<>> for continue, or the
\* match appended
UpcomingRow(row, now_utc) ==
    LET Appended(match_time) ==
            IF match_time[1] < now_utc THEN <<>>
            ELSE IF OddsAt(row, 2) = NotAvailable THEN <<>>
            ELSE <<[id |-> MatchId(row),
                    time_obj |-> match_time[1],
                    home_team |-> TeamText(row.home),
                    away_team |-> TeamText(row.away),
                    handicap |-> OddsAt(row, 2),
                    goal_line |-> OddsAt(row, 10)]>>
        Parsed_(match_time) == IF match_time = <<>> THEN <<>> ELSE Appended(match_time)
    IN IF MatchId(row) = <<>> THEN <<>>
       ELSE IF ~row.time_cell \/ row.data_t = <<>> THEN <<>>
       ELSE Parsed_(StrpTime(row.data_t[1]))

\* one turn of the loop of parse_main_page_finished_matches; local_now is
\* datetime.datetime.now()
FinishedRow(row, local_now) ==
    LET Appended(match_time) ==
            <<[id |-> MatchId(row),
               time_obj |-> match_time,
               home_team |-> TeamText(row.home),
               away_team |-> TeamText(row.away),
               score |-> ScoreText(row),
               handicap |-> OddsAt(row, 2),
               goal_line |-> OddsAt(row, 10)]>>
        Parsed_(match_time) == IF match_time = <<>> THEN <<>> ELSE Appended(match_time[1])
    IN IF MatchId(row) = <<>> THEN <<>>
       ELSE IF row.state # <<>> /\ row.state[1] # <<"-", "1">> THEN <<>>
       ELSE IF row.cells < 8 THEN <<>>
       ELSE IF ~ScoreMatch(ScoreText(row)) THEN <<>>
       ELSE IF OddsAt(row, 2) = NotAvailable THEN <<>>
       ELSE IF row.time_cell /\ row.data_t # <<>> THEN Parsed_(StrpTime(row.data_t[1]))
       ELSE Appended(local_now)

\* the matches the loop has appended, in the order of the rows
RECURSIVE UpcomingLoop(_, _)
UpcomingLoop(match_rows, now_utc) ==
    IF match_rows = <<>> THEN <<>>
    ELSE UpcomingRow(Head(match_rows), now_utc) \o UpcomingLoop(Tail(match_rows), now_utc)

RECURSIVE FinishedLoop(_, _)
FinishedLoop(match_rows, local_now) ==
    IF match_rows = <<>> THEN <<>>
    ELSE FinishedRow(Head(match_rows), local_now) \o FinishedLoop(Tail(match_rows), local_now)

\* the filter step of the two parsers (no text at hand raises in the try)
PageFilter(matches, handicap_filter) ==
    LET Matching(target) ==
            IF target = <<>> THEN matches
            ELSE SelectSeq(matches,
                           LAMBDA m :
                               app_normalize_handicap_to_half_bucket_str(<<m.handicap>>)
                               = target)
    IN IF handicap_filter = <<>> \/ handicap_filter = <<<<>>>> THEN matches
       ELSE Matching(app_normalize_handicap_to_half_bucket_str(handicap_filter))

\* matches.sort(key=time_obj), and with reverse=True: a stable sort
TimePlace(matches, i, reverse) ==
    Cardinality({j \in 1..Len(matches) :
                    IF reverse THEN matches[j].time_obj > matches[i].time_obj
                    ELSE matches[j].time_obj < matches[i].time_obj})
    + Cardinality({j \in 1..(i - 1) : matches[j].time_obj = matches[i].time_obj}) + 1

SortByTime(matches, reverse) ==
    [k \in 1..Len(matches) |->
        matches[CHOOSE i \in 1..Len(matches) : TimePlace(matches, i, reverse) = k]]

\* (time_obj + timedelta(hours=2)).strftime('%H:%M'), and with '%d/%m %H:%M'
PageTime(time_obj, with_date) ==
    LET Written(date, secs) ==
            (IF with_date THEN Pad2(date[3]) \o <<"/">> \o Pad2(date[2]) \o <<" ">> ELSE <<>>)
            \o Pad2(secs \div 3600) \o <<":">> \o Pad2((secs % 3600) \div 60)
        Local(local) == Written(CivilFromDays(local \div 86400 + EpochDays), local % 86400)
    IN Local(time_obj + 2 * 3600)

\* the matches returned: match['time'] set and match['time_obj'] deleted
UpcomingPage(matches) ==
    [i \in 1..Len(matches) |->
        [id |-> matches[i].id,
         home_team |-> matches[i].home_team,
         away_team |-> matches[i].away_team,
         handicap |-> matches[i].handicap,
         goal_line |-> matches[i].goal_line,
         time |-> PageTime(matches[i].time_obj, FALSE)]]

FinishedPage(matches) ==
    [i \in 1..Len(matches) |->
        [id |-> matches[i].id,
         home_team |-> matches[i].home_team,
         away_team |-> matches[i].away_team,
         score |-> matches[i].score,
         handicap |-> matches[i].handicap,
         goal_line |-> matches[i].goal_line,
         time |-> PageTime(matches[i].time_obj, TRUE)]]

\* the two parsers, on [html_content, limit, offset, handicap_filter, now]:
\* the matches appended by the loop, and the page returned
parse_main_page_matches(args) ==
    [appended |-> UpcomingLoop(MatchRows(args.html_content), args.now),
     returned |-> UpcomingPage(Slice(SortByTime(PageFilter(UpcomingLoop(MatchRows(
                                                               args.html_content), args.now),
                                                           args.handicap_filter), FALSE),
                                     args.offset, args.limit))]

parse_main_page_finished_matches(args) ==
    [appended |-> FinishedLoop(MatchRows(args.html_content), args.now),
     returned |-> FinishedPage(Slice(SortByTime(PageFilter(FinishedLoop(MatchRows(
                                                               args.html_content), args.now),
                                                           args.handicap_filter), TRUE),
                                     args.offset, args.limit))]

\* a played match: state -1, kickoff 09:00, score in a b tag, eleven odds
RowPlayed ==
    [id |-> <<<<"t", "r", "1", "_", "1", "1">>>>, state |-> <<<<"-", "1">>>>, cells |-> 8,
     time_cell |-> TRUE, data_t |-> <<<<"2", "0", "2", "4", "-", "0", "1", "-", "0", "1", " ", "0", "9", ":", "0", "0", ":", "0", "0">>>>,
     home |-> <<<<"H", "a">>>>, away |-> <<<<" ", "A", "a", " ">>>>,
     score_b |-> <<<<"2", " ", "-", " ", "1">>>>, score_text |-> <<"x">>,
     odds |-> <<<<"1", ",", "2", ",", "0", ".", "5", ",", "4", ",", "5", ",", "6", ",", "7", ",", "8", ",", "9", ",", "1", "0", ",", "2", ".", "5">>>>]

\* a match ahead: state 0, kickoff 11:00, no score, three odds
RowAhead ==
    [id |-> <<<<"t", "r", "1", "_", "1", "2">>>>, state |-> <<<<"0">>>>, cells |-> 8,
     time_cell |-> TRUE, data_t |-> <<<<"2", "0", "2", "4", "-", "0", "1", "-", "0", "1", " ", "1", "1", ":", "0", "0", ":", "0", "0">>>>,
     home |-> <<<<"H", "b">>>>, away |-> <<>>,
     score_b |-> <<>>, score_text |-> <<"-">>,
     odds |-> <<<<"1", ",", "2", ",", "1">>>>]

\* a scored row without a state attribute, kickoff 09:30
RowNoState ==
    [id |-> <<<<"t", "r", "1", "_", "1", "3">>>>, state |-> <<>>, cells |-> 8,
     time_cell |-> TRUE, data_t |-> <<<<"2", "0", "2", "4", "-", "0", "1", "-", "0", "1", " ", "0", "9", ":", "3", "0", ":", "0", "0">>>>,
     home |-> <<<<"H", "c">>>>, away |-> <<<<"A", "c">>>>,
     score_b |-> <<>>, score_text |-> <<" ", "0", "-", "0", " ">>,
     odds |-> <<<<"1", ",", "2", ",", "0", ".", "7", "5">>>>]

\* a played match without a time cell
RowNoTimeCell ==
    [id |-> <<<<"t", "r", "1", "_", "1", "4">>>>, state |-> <<<<"-", "1">>>>, cells |-> 8,
     time_cell |-> FALSE, data_t |-> <<>>,
     home |-> <<<<"H", "d">>>>, away |-> <<<<"A", "d">>>>,
     score_b |-> <<<<"1", "-", "1">>>>, score_text |-> <<"x">>,
     odds |-> <<<<"1", ",", "2", ",", "0", ".", "5">>>>]

\* a played match whose time cell has no data-t attribute
RowNoTimestamp ==
    [id |-> <<<<"t", "r", "1", "_", "1", "5">>>>, state |-> <<<<"-", "1">>>>, cells |-> 9,
     time_cell |-> TRUE, data_t |-> <<>>,
     home |-> <<<<"H", "e">>>>, away |-> <<<<"A", "e">>>>,
     score_b |-> <<>>, score_text |-> <<"3", " ", "-", "2">>,
     odds |-> <<<<"1", ",", "2", ",", "1">>>>]

\* a played match whose data-t is no date
RowBadTimestamp ==
    [id |-> <<<<"t", "r", "1", "_", "1", "6">>>>, state |-> <<<<"-", "1">>>>, cells |-> 8,
     time_cell |-> TRUE, data_t |-> <<<<"s", "o", "o", "n">>>>,
     home |-> <<<<"H", "f">>>>, away |-> <<<<"A", "f">>>>,
     score_b |-> <<<<"1", "-", "0">>>>, score_text |-> <<"x">>,
     odds |-> <<<<"1", ",", "2", ",", "0", ".", "5">>>>]

\* a row whose id is the prefix alone
RowNoId ==
    [id |-> <<<<"t", "r", "1", "_">>>>, state |-> <<<<"-", "1">>>>, cells |-> 8,
     time_cell |-> TRUE, data_t |-> <<<<"2", "0", "2", "4", "-", "0", "1", "-", "0", "1", " ", "1", "1", ":", "0", "0", ":", "0", "0">>>>,
     home |-> <<<<"H", "g">>>>, away |-> <<<<"A", "g">>>>,
     score_b |-> <<<<"1", "-", "0">>>>, score_text |-> <<"x">>,
     odds |-> <<<<"1", ",", "2", ",", "0", ".", "5">>>>]

\* a played match with two odds, kickoff 12:00
RowShortOdds ==
    [id |-> <<<<"t", "r", "1", "_", "1", "8">>>>, state |-> <<<<"-", "1">>>>, cells |-> 8,
     time_cell |-> TRUE, data_t |-> <<<<"2", "0", "2", "4", "-", "0", "1", "-", "0", "1", " ", "1", "2", ":", "0", "0", ":", "0", "0">>>>,
     home |-> <<<<"H", "h">>>>, away |-> <<<<"A", "h">>>>,
     score_b |-> <<<<"0", "-", "2">>>>, score_text |-> <<"x">>,
     odds |-> <<<<"1", ",", "2">>>>]

\* a match in play: state 1, seven cells, kickoff 10:00:30
RowLive ==
    [id |-> <<<<"t", "r", "1", "_", "1", "9">>>>, state |-> <<<<"1">>>>, cells |-> 7,
     time_cell |-> TRUE, data_t |-> <<<<"2", "0", "2", "4", "-", "0", "1", "-", "0", "1", " ", "1", "0", ":", "0", "0", ":", "3", "0">>>>,
     home |-> <<<<"H", "i">>>>, away |-> <<<<"A", "i">>>>,
     score_b |-> <<>>, score_text |-> <<"1", "-", "0">>,
     odds |-> <<<<"1", ",", "2", ",", "0", ".", "2", "5">>>>]

\* a row of state -1 whose score cell reads vs, kickoff 11:30
RowUnscored ==
    [id |-> <<<<"t", "r", "1", "_", "2", "0">>>>, state |-> <<<<"-", "1">>>>, cells |-> 8,
     time_cell |-> TRUE, data_t |-> <<<<"2", "0", "2", "4", "-", "0", "1", "-", "0", "1", " ", "1", "1", ":", "3", "0", ":", "0", "0">>>>,
     home |-> <<<<"H", "j">>>>, away |-> <<<<"A", "j">>>>,
     score_b |-> <<>>, score_text |-> <<"v", "s">>,
     odds |-> <<<<"1", ",", "2", ",", "0", ".", "5">>>>]

\* a row of another table
RowOther ==
    [id |-> <<<<"t", "r", "2", "_", "2", "1">>>>, state |-> <<<<"-", "1">>>>, cells |-> 8,
     time_cell |-> TRUE, data_t |-> <<<<"2", "0", "2", "4", "-", "0", "1", "-", "0", "1", " ", "1", "1", ":", "0", "0", ":", "0", "0">>>>,
     home |-> <<<<"H", "k">>>>, away |-> <<<<"A", "k">>>>,
     score_b |-> <<<<"1", "-", "0">>>>, score_text |-> <<"x">>,
     odds |-> <<<<"1", ",", "2", ",", "0", ".", "5">>>>]

SoupRows ==
    {RowPlayed, RowAhead, RowNoState, RowNoTimeCell, RowNoTimestamp, RowBadTimestamp, RowNoId, RowShortOdds,
     RowLive, RowUnscored, RowOther}

\* how many rows a document has
MaxRows == 2

Documents == UNION {[1..n -> SoupRows] : n \in 0..MaxRows}

\* the calls of the parsers: a whole page or the second match alone, with
\* and without a filter, at 10:00:00
PageCalls ==
    {[html_content |-> html_content, limit |-> page[1], offset |-> page[2],
      handicap_filter |-> handicap_filter, now |-> StartNow] :
        html_content \in Documents, page \in {<<20, 0>>, <<1, 1>>},
        handicap_filter \in {<<>>, <<<<"0", ".", "5">>>>}}

(***************************************************************************)
(* The record builder, the normalizer and the filter options, each applied *)
(* to an input drawn at the start                                          *)
(***************************************************************************)
\* how many tokens a payload has: around 9 and around each index read
TokenCounts == {0, 8, 9, 13, 20, 29, 35}

\* the token at index 0
IdTokens ==
    {PyInt(7), PyInt(0 - 3), PyStr(<<"1", "2">>), PyStr(<<"x">>), PyStr(<<>>), PyNone,
     PyBool(TRUE), PyFloat(Fin(FALSE, 19 * (Scale \div 10))), PyFloat(Inf(FALSE)),
     PyFloat(NaN)}

\* the token at index 8
KickoffTokens ==
    {PyStr(DateText(2024, 1, 1, 12, 0, 0)),
     PyStr(<<" ">> \o DateText(2024, 6, 30, 23, 59, 59) \o <<" ">>),
     PyStr(<<"2", "0", "2", "4", "-", "1", "-", "1", " ", "9", ":", "0", ":", "0">>),
     PyStr(DateText(2024, 13, 1, 12, 0, 0)),
     PyStr(DateText(2023, 2, 29, 12, 0, 0)),
     PyStr(<<"2", "0", "2", "4", "-", "0", "1", "-", "0", "1">>),
     PyStr(<<>>), PyInt(20240101), PyNone}

\* the tokens at the other indexes: "absent" leaves them None, "set" fills
\* scores, status, handicap and goal line, "text" fills them with texts,
\* "inf" makes the status an infinite float
OtherKinds == {"absent", "set", "text", "inf"}

OtherToken(kind, i) ==
    IF i = 4 THEN PyStr(<<"H">>)
    ELSE IF i = 6 THEN PyStr(<<"A">>)
    ELSE IF kind = "set"
    THEN (CASE i = 12 -> PyInt(2) [] i = 13 -> PyInt(1) [] i = 19 -> PyInt(2)
            [] i = 28 -> PyFloat(Fin(TRUE, Scale \div 4)) [] i = 34 -> PyInt(3)
            [] OTHER -> PyNone)
    ELSE IF kind = "text"
    THEN (CASE i = 12 -> PyStr(<<"2">>) [] i = 13 -> PyStr(<<"x">>) [] i = 19 -> PyStr(<<>>)
            [] i = 28 -> PyStr(<<"0", ".", "5">>) [] i = 34 -> PyStr(<<"a">>)
            [] OTHER -> PyNone)
    ELSE IF kind = "inf" /\ i = 19 THEN PyFloat(Inf(FALSE))
    ELSE PyNone

TokenRow(n, id, kickoff, kind) ==
    [k \in 1..n |-> IF k = 1 THEN id ELSE IF k = 9 THEN kickoff ELSE OtherToken(kind, k - 1)]

TokenRows ==
    {TokenRow(n, id, kickoff, kind) :
        n \in TokenCounts, id \in IdTokens, kickoff \in KickoffTokens, kind \in OtherKinds}

\* the whole lines run from 0 to MaxLine
MaxLine == 3

LineSigns == {<<>>, <<"-">>, <<"+">>}

LineFractions ==
    {<<>>, <<".", "0">>, <<".", "2", "5">>, <<".", "5">>, <<".", "7", "5">>,
     <<".", "5", "0">>, <<".", "1">>, <<".", "3">>, <<".", "6">>, <<".", "9">>,
     <<".", "0", "0", "0", "0", "0", "0", "1">>}

LineText(sign, n, fraction) == sign \o NatText(n) \o fraction

\* a line on the quarter grid; j counts the quarters after n
QuarterText(sign, n, j) ==
    LineText(sign, n, <<<<>>, <<".", "2", "5">>, <<".", "5">>, <<".", "7", "5">>>>[j + 1])

QuarterTexts ==
    {QuarterText(sign, n, j) : sign \in {<<>>, <<"-">>}, n \in 0..MaxLine, j \in 0..3}

\* texts that are no line
JunkTexts ==
    {<<"a", "b", "c">>, <<>>, <<"-">>, <<"/">>, <<"1", "/">>, <<"0", ",", "5">>,
     <<" ", "0", ".", "2", "5", " ">>, <<"0", ".", "5", "/", "a">>, <<"1", ".">>,
     <<"1", "e", "2">>}

\* lines written with the minus sign U+2212, alone and as a split line
GlyphTexts ==
    {LineText(<<UnicodeMinus>>, n, fraction) : n \in 0..MaxLine, fraction \in LineFractions}
        \cup {<<UnicodeMinus>> \o a \o <<"/", UnicodeMinus>> \o b :
                 a \in {<<"0", ".", "5">>}, b \in {<<"1">>, <<"0", ".", "5">>}}

\* the texts normalize_handicap_to_half_bucket_str is applied to (None is <<>>)
HandicapTexts ==
    {<<>>}
        \cup {<<LineText(sign, n, fraction)>> :
                 sign \in LineSigns, n \in 0..MaxLine, fraction \in LineFractions}
        \cup {<<a \o <<"/">> \o b>> : a \in QuarterTexts, b \in QuarterTexts}
        \cup {<<junk>> : junk \in JunkTexts}
        \cup {<<glyph>> : glyph \in GlyphTexts}

\* the handicap of a display record: a text, or <<>> for a record without one
RecordHandicaps ==
    {<<>>, <<<<"-">>>>, <<<<"0">>>>, <<<<"0", ".", "2", "5">>>>, <<<<"0", ".", "7", "5">>>>,
     <<<<"1">>>>, <<<<"-", "0", ".", "5">>>>, <<<<"-", "2", ".", "2", "5">>>>,
     <<<<"a", "b", "c">>>>, <<<<"-">> \o NatText(0) \o <<".", "0", "0", "0", "0", "0", "0", "1">>>>}

\* how many display records a collection has
MaxRecords == 3

RecordLists ==
    UNION {[1..n -> {[handicap |-> h] : h \in RecordHandicaps}] : n \in 0..MaxRecords}

InitFunctions ==
    /\ now = StartNow
    /\ cache = EmptyCache
    /\ refreshed = <<>>
    /\ call = NoCall
    /\ threads = [t \in Threads |-> Idle]
    /\ scan = NoScan
    /\ unit \in {[NoUnit EXCEPT !.fn = "_build_entry", !.input = values] :
                    values \in TokenRows}
              \cup {[NoUnit EXCEPT !.fn = "normalize_handicap_to_half_bucket_str",
                                   !.input = text] : text \in HandicapTexts}
              \cup {[NoUnit EXCEPT !.fn = "app.normalize_handicap_to_half_bucket_str",
                                   !.input = text] : text \in HandicapTexts}
              \cup {[NoUnit EXCEPT !.fn = "parse_main_page_matches",
                                   !.input = args] : args \in PageCalls}
              \cup {[NoUnit EXCEPT !.fn = "parse_main_page_finished_matches",
                                   !.input = args] : args \in PageCalls}
              \cup {[NoUnit EXCEPT !.fn = "collect_handicap_options",
                                   !.input = matches] : matches \in RecordLists}
    /\ transport = NoTransport
    /\ workers = [w \in Workers |-> Resting]
    /\ written = Unwritten
    /\ storage = NoStorage
    /\ callers = [c \in Callers |-> NotCalling]

build_entry ==
    /\ unit.fn = "_build_entry" /\ ~unit.done
    /\ unit' = [unit EXCEPT !.output = _build_entry(unit.input), !.done = TRUE]
    /\ UNCHANGED <<now, cache, refreshed, call, threads, scan, transport, workers>>
    /\ UNCHANGED <<written, storage, callers>>

normalize ==
    /\ unit.fn = "normalize_handicap_to_half_bucket_str" /\ ~unit.done
    /\ unit' = [unit EXCEPT !.output = normalize_handicap_to_half_bucket_str(unit.input),
                            !.done = TRUE]
    /\ UNCHANGED <<now, cache, refreshed, call, threads, scan, transport, workers>>
    /\ UNCHANGED <<written, storage, callers>>

\* normalize_handicap_to_half_bucket_str of app.py
app_normalize ==
    /\ unit.fn = "app.normalize_handicap_to_half_bucket_str" /\ ~unit.done
    /\ unit' = [unit EXCEPT !.output = app_normalize_handicap_to_half_bucket_str(unit.input),
                            !.done = TRUE]
    /\ UNCHANGED <<now, cache, refreshed, call, threads, scan, transport, workers>>
    /\ UNCHANGED <<written, storage, callers>>

parse_page ==
    /\ unit.fn = "parse_main_page_matches" /\ ~unit.done
    /\ unit' = [unit EXCEPT !.output = parse_main_page_matches(unit.input), !.done = TRUE]
    /\ UNCHANGED <<now, cache, refreshed, call, threads, scan, transport, workers>>
    /\ UNCHANGED <<written, storage, callers>>

parse_finished_page ==
    /\ unit.fn = "parse_main_page_finished_matches" /\ ~unit.done
    /\ unit' = [unit EXCEPT !.output = parse_main_page_finished_matches(unit.input),
                            !.done = TRUE]
    /\ UNCHANGED <<now, cache, refreshed, call, threads, scan, transport, workers>>
    /\ UNCHANGED <<written, storage, callers>>

collect ==
    /\ unit.fn = "collect_handicap_options" /\ ~unit.done
    /\ \E out \in collect_handicap_options(unit.input) :
          unit' = [unit EXCEPT !.output = out, !.done = TRUE]
    /\ UNCHANGED <<now, cache, refreshed, call, threads, scan, transport, workers>>
    /\ UNCHANGED <<written, storage, callers>>

NextFunctions ==
    \/ build_entry \/ normalize \/ app_normalize \/ collect
    \/ parse_page \/ parse_finished_page

SpecFunctions == InitFunctions /\ [][NextFunctions]_vars

(***************************************************************************)
(* The transport: _get_shared_requests_session, and around it              *)
(* _download_bf_js of modules/nowgoal_client.py or                         *)
(* _fetch_nowgoal_html_sync of v2/v2/app.py. Each module has globals of    *)
(* its own, so a run is of one module; the callers overlap statement by    *)
(* statement.                                                              *)
(***************************************************************************)
Modules == {"nowgoal_client", "app"}

\* how many requests each caller makes
MaxCalls == 2

\* what session.get and raise_for_status come to: a page, a timeout, a
\* refused connection, the retries on 5xx run out, a 404 answer
Outcomes == {"ok", "timeout", "connection", "retries", "status"}

\* the exception session.get(...) raises
GetRaises(outcome) ==
    CASE outcome = "timeout" -> "Timeout"
      [] outcome = "connection" -> "ConnectionError"
      [] outcome = "retries" -> "RetryError"
      [] OTHER -> "-"

\* the exception response.raise_for_status() raises
StatusRaises(outcome) == IF outcome = "status" THEN "HTTPError" ELSE "-"

\* except Exception: every exception of requests is one
ExceptException(exc) == exc \in {"Timeout", "ConnectionError", "RetryError", "HTTPError"}

\* what the function returns, or the exception that leaves it
Response(outcome) ==
    IF GetRaises(outcome) # "-"
    THEN (IF ExceptException(GetRaises(outcome)) THEN Ok(<<>>) ELSE Raise(GetRaises(outcome)))
    ELSE IF StatusRaises(outcome) # "-"
    THEN (IF ExceptException(StatusRaises(outcome)) THEN Ok(<<>>)
          ELSE Raise(StatusRaises(outcome)))
    ELSE Ok(<<"text">>)

\* variant: the lock is not waited for
EnterUnguarded(lock) == TRUE

\* with lock: the lock can be taken when nobody holds it
CanEnter(lock) == lock = 0

\* variant: the lock is given back only when session.get returned
ReleasedOnReturn(outcome, w) == IF GetRaises(outcome) = "-" THEN 0 ELSE w

\* the holder of the lock after the with block is left, by return or by
\* exception: nobody
ExitWith(outcome, w) == 0

InitTransport ==
    /\ now = StartNow
    /\ cache = EmptyCache
    /\ refreshed = <<>>
    /\ call = NoCall
    /\ threads = [t \in Threads |-> Idle]
    /\ scan = NoScan
    /\ unit = NoUnit
    /\ transport \in {[NoTransport EXCEPT !.module = m] : m \in Modules}
    /\ workers = [w \in Workers |-> Resting]
    /\ written = Unwritten
    /\ storage = NoStorage
    /\ callers = [c \in Callers |-> NotCalling]

\* a caller enters _download_bf_js or _fetch_nowgoal_html_sync
Request(w) ==
    /\ workers[w].pc = "idle"
    /\ workers[w].calls < MaxCalls
    /\ workers' = [workers EXCEPT ![w] =
                      [Resting EXCEPT !.pc = "enter", !.calls = workers[w].calls,
                                      !.fn = IF transport.module = "app"
                                             THEN "_fetch_nowgoal_html_sync"
                                             ELSE "_download_bf_js"]]
    /\ UNCHANGED <<now, cache, refreshed, call, threads, scan, unit, transport>>
    /\ UNCHANGED <<written, storage, callers>>

\* with _requests_session_lock:
EnterSession(w) ==
    /\ workers[w].pc = "enter"
    /\ CanEnter(transport._requests_session_lock)
    /\ transport' = [transport EXCEPT !._requests_session_lock = w]
    /\ workers' = [workers EXCEPT ![w].pc = "check"]
    /\ UNCHANGED <<now, cache, refreshed, call, threads, scan, unit>>
    /\ UNCHANGED <<written, storage, callers>>

\* if _requests_session is None:
CheckSession(w) ==
    /\ workers[w].pc = "check"
    /\ workers' = [workers EXCEPT ![w].missing = (transport._requests_session = <<>>),
                                  ![w].pc = IF transport._requests_session = <<>>
                                            THEN "construct" ELSE "leave"]
    /\ UNCHANGED <<now, cache, refreshed, call, threads, scan, unit, transport>>
    /\ UNCHANGED <<written, storage, callers>>

\* session = requests.Session(); ...; _requests_session = session
ConstructSession(w) ==
    /\ workers[w].pc = "construct"
    /\ transport' = [transport EXCEPT !.built = @ + 1,
                                      !._requests_session = <<transport.built + 1>>]
    /\ workers' = [workers EXCEPT ![w].pc = "leave"]
    /\ UNCHANGED <<now, cache, refreshed, call, threads, scan, unit>>
    /\ UNCHANGED <<written, storage, callers>>

\* return _requests_session, which leaves the with block
LeaveSession(w) ==
    /\ workers[w].pc = "leave"
    /\ transport' = [transport EXCEPT !._requests_session_lock = 0]
    /\ workers' = [workers EXCEPT ![w].session = transport._requests_session,
                                  ![w].pc = IF transport.module = "app"
                                            THEN "fetch_lock" ELSE "get"]
    /\ UNCHANGED <<now, cache, refreshed, call, threads, scan, unit>>
    /\ UNCHANGED <<written, storage, callers>>

\* with _requests_fetch_lock: (app.py only)
EnterFetch(w) ==
    /\ workers[w].pc = "fetch_lock"
    /\ CanEnter(transport._requests_fetch_lock)
    /\ transport' = [transport EXCEPT !._requests_fetch_lock = w]
    /\ workers' = [workers EXCEPT ![w].pc = "get"]
    /\ UNCHANGED <<now, cache, refreshed, call, threads, scan, unit>>
    /\ UNCHANGED <<written, storage, callers>>

\* session.get(url, timeout=REQUEST_TIMEOUT_SECONDS)
Get(w) ==
    /\ workers[w].pc = "get"
    /\ \E outcome \in Outcomes :
          workers' = [workers EXCEPT ![w].outcome = outcome,
                                     ![w].pc = IF transport.module = "app"
                                               THEN "exit_with" ELSE "finish"]
    /\ UNCHANGED <<now, cache, refreshed, call, threads, scan, unit, transport>>
    /\ UNCHANGED <<written, storage, callers>>

\* the with block of the fetch lock is left (app.py only)
LeaveFetch(w) ==
    /\ workers[w].pc = "exit_with"
    /\ transport' = [transport EXCEPT
                        !._requests_fetch_lock = ExitWith(workers[w].outcome, w)]
    /\ workers' = [workers EXCEPT ![w].pc = "finish"]
    /\ UNCHANGED <<now, cache, refreshed, call, threads, scan, unit>>
    /\ UNCHANGED <<written, storage, callers>>

\* raise_for_status(), return resp.text, or the except branch
Finish(w) ==
    /\ workers[w].pc = "finish"
    /\ workers' = [workers EXCEPT ![w].result = <<Response(workers[w].outcome)>>,
                                  ![w].pc = "idle",
                                  ![w].calls = @ + 1]
    /\ UNCHANGED <<now, cache, refreshed, call, threads, scan, unit, transport>>
    /\ UNCHANGED <<written, storage, callers>>

NextTransport ==
    \E w \in Workers :
        \/ Request(w) \/ EnterSession(w) \/ CheckSession(w) \/ ConstructSession(w)
        \/ LeaveSession(w) \/ EnterFetch(w) \/ Get(w) \/ LeaveFetch(w) \/ Finish(w)

SpecTransport == InitTransport /\ [][NextTransport]_vars

(***************************************************************************)
(* The preview store src/v2/modules/preview_storage.py. The store is the    *)
(* dict of the JSON file: matches, in the order of the file, each with its  *)
(* bucket of one entry per payload type, and last_updated. A payload is a   *)
(* name, <<>> standing for a payload that is no dict.                       *)
(***************************************************************************)
PayloadTypes == {"preview", "analysis"}

EmptyBucket == [preview |-> <<>>, analysis |-> <<>>]

\* the store of a missing file: {'matches': {}}
_load_store_unlocked(file) ==
    IF file = <<>> THEN [matches |-> <<>>, last_updated |-> <<>>] ELSE file[1]

\* the file after json.dump(store)
_write_store_unlocked(store) == <<store>>

\* the place of match_id among the matches, 0 when it is not there
PlaceOf(matches, match_id) ==
    IF \E i \in 1..Len(matches) : matches[i].match_id = match_id
    THEN CHOOSE i \in 1..Len(matches) : matches[i].match_id = match_id
    ELSE 0

\* lines 102-106: the entries with an id left after strip() and a dict
RECURSIVE SerializableEntries(_)
SerializableEntries(entries) ==
    IF entries = <<>> THEN <<>>
    ELSE (IF Strip(Head(entries).raw_match_id) = <<>> \/ Head(entries).payload = <<>>
          THEN <<>>
          ELSE <<[match_id |-> Strip(Head(entries).raw_match_id),
                  payload |-> Head(entries).payload[1]]>>)
         \o SerializableEntries(Tail(entries))

\* one turn of the loop of lines 115-129 on st = [matches, added, updated]
UpsertOne(st, match_id, payload, timestamp, payload_type) ==
    LET Entry == <<[payload |-> payload, stored_at |-> timestamp,
                    source |-> "manual_range"]>>
        At(i) ==
            IF i = 0
            THEN [matches |-> Append(st.matches,
                                     [match_id |-> match_id,
                                      bucket |-> [EmptyBucket EXCEPT ![payload_type] = Entry]]),
                  added |-> st.added + 1, updated |-> st.updated]
            ELSE [matches |-> [st.matches EXCEPT ![i].bucket[payload_type] = Entry],
                  added |-> IF st.matches[i].bucket[payload_type] = <<>>
                            THEN st.added + 1 ELSE st.added,
                  updated |-> IF st.matches[i].bucket[payload_type] = <<>>
                              THEN st.updated ELSE st.updated + 1]
    IN At(PlaceOf(st.matches, match_id))

RECURSIVE UpsertLoop(_, _, _, _)
UpsertLoop(st, serializable_entries, timestamp, payload_type) ==
    IF serializable_entries = <<>> THEN st
    ELSE UpsertLoop(UpsertOne(st, Head(serializable_entries).match_id,
                              Head(serializable_entries).payload, timestamp, payload_type),
                    Tail(serializable_entries), timestamp, payload_type)

\* lines 110-132 of upsert_previews on the store loaded: the store written
\* and the counts returned
upsert_previews(store, serializable_entries, timestamp, payload_type) ==
    LET Done(st) ==
            [store |-> [matches |-> st.matches, last_updated |-> <<timestamp>>],
             wrote |-> TRUE,
             result |-> <<[added |-> st.added, updated |-> st.updated]>>]
    IN Done(UpsertLoop([matches |-> store.matches, added |-> 0, updated |-> 0],
                       serializable_entries, timestamp, payload_type))

\* lines 138-150 of delete_preview; timestamp is the clock read at line 148
delete_preview(store, match_id, payload_type, timestamp) ==
    LET Without(i) ==
            [k \in 1..(Len(store.matches) - 1) |->
                IF k < i THEN store.matches[k] ELSE store.matches[k + 1]]
        Popped(i) ==
            IF [store.matches[i].bucket EXCEPT ![payload_type] = <<>>] = EmptyBucket
            THEN Without(i)
            ELSE [store.matches EXCEPT ![i].bucket[payload_type] = <<>>]
        At(i) ==
            IF i = 0 THEN [store |-> store, wrote |-> FALSE, result |-> <<FALSE>>]
            ELSE IF store.matches[i].bucket[payload_type] = <<>>
            THEN [store |-> store, wrote |-> FALSE, result |-> <<FALSE>>]
            ELSE [store |-> [matches |-> Popped(i), last_updated |-> <<timestamp>>],
                  wrote |-> TRUE, result |-> <<TRUE>>]
    IN At(PlaceOf(store.matches, match_id))

\* lines 70-90 of get_preview: None, written <<>>, or the copy of the payload
\* with its meta key
get_preview(store, match_id, payload_type) ==
    LET Copy(typed_entry) ==
            [payload |-> typed_entry.payload,
             meta_key |-> IF payload_type = "preview" THEN "_cached_preview"
                          ELSE "_cached_analysis",
             stored_at |-> typed_entry.stored_at,
             source |-> typed_entry.source,
             payload_type |-> payload_type]
        At(i) ==
            IF i = 0 THEN <<<<>>>>
            ELSE IF store.matches[i].bucket[payload_type] = <<>> THEN <<<<>>>>
            ELSE <<<<Copy(store.matches[i].bucket[payload_type][1])>>>>
    IN [store |-> store, wrote |-> FALSE, result |-> At(PlaceOf(store.matches, match_id))]

\* items.sort(key=stored_at, reverse=True): stable
StoredPlace(items, i) ==
    Cardinality({j \in 1..Len(items) : items[j].stored_at > items[i].stored_at})
    + Cardinality({j \in 1..(i - 1) : items[j].stored_at = items[i].stored_at}) + 1

\* lines 44-64 of list_previews
list_previews(store, payload_type) ==
    LET Sorted(items) ==
            [k \in 1..Len(items) |->
                items[CHOOSE i \in 1..Len(items) : StoredPlace(items, i) = k]]
        Items(typed) ==
            [k \in 1..Len(typed) |->
                [match_id |-> typed[k].match_id,
                 payload_type |-> payload_type,
                 stored_at |-> typed[k].bucket[payload_type][1].stored_at,
                 source |-> typed[k].bucket[payload_type][1].source,
                 payload |-> typed[k].bucket[payload_type][1].payload]]
    IN [store |-> store, wrote |-> FALSE,
        result |-> <<Sorted(Items(SelectSeq(store.matches,
                                            LAMBDA m : m.bucket[payload_type] # <<>>)))>>]

\* the part of a call that runs under the lock, on the store loaded
Locked(c, store, timestamp) ==
    IF c.fn = "upsert_previews"
    THEN upsert_previews(store, c.serializable_entries, c.timestamp, c.payload_type)
    ELSE IF c.fn = "delete_preview"
    THEN delete_preview(store, c.match_id, c.payload_type, timestamp)
    ELSE IF c.fn = "get_preview" THEN get_preview(store, c.match_id, c.payload_type)
    ELSE list_previews(store, c.payload_type)

\* the calls made: upserts of one match, of a match under another payload
\* type, of a list with an id of blanks, a payload that is no dict and an id
\* given twice, of nothing valid; a delete, a get and a list
StoreCalls ==
    {[NotCalling EXCEPT !.fn = "upsert_previews", !.entries = entries, !.payload_type = payload_type] :
        entries \in {<<[raw_match_id |-> <<"a">>, payload |-> <<"p1">>]>>,
                     <<[raw_match_id |-> <<" ", "b", " ">>, payload |-> <<"p2">>]>>,
                     <<[raw_match_id |-> <<"a">>, payload |-> <<"p2">>],
                       [raw_match_id |-> <<" ">>, payload |-> <<"p1">>],
                       [raw_match_id |-> <<"b">>, payload |-> <<>>],
                       [raw_match_id |-> <<"a">>, payload |-> <<"p3">>]>>,
                     <<[raw_match_id |-> <<>>, payload |-> <<"p1">>]>>},
        payload_type \in {"preview"}}
    \cup {[NotCalling EXCEPT !.fn = "upsert_previews",
                       !.entries = <<[raw_match_id |-> <<"a">>, payload |-> <<"p4">>]>>,
                       !.payload_type = "analysis"]}
    \cup {[NotCalling EXCEPT !.fn = fn, !.match_id = <<"a">>] :
             fn \in {"delete_preview", "get_preview"}}
    \cup {[NotCalling EXCEPT !.fn = "list_previews"]}

InitPreviews ==
    /\ now = StartNow
    /\ cache = EmptyCache
    /\ refreshed = <<>>
    /\ call = NoCall
    /\ threads = [t \in Threads |-> Idle]
    /\ scan = NoScan
    /\ unit = NoUnit
    /\ transport = NoTransport
    /\ workers = [w \in Workers |-> Resting]
    /\ written = Unwritten
    /\ storage = NoStorage
    /\ callers = [c \in Callers |-> NotCalling]

\* A variant of the lock that lets every caller in; SerialStore is tested
\* against it.
StorageLockIgnored(lock) == TRUE

\* with _STORAGE_LOCK: a caller goes in when no caller holds the lock
StorageLockFree(lock) == lock = 0

\* the call begins. upsert_previews reads the clock and sorts out its entries
\* (lines 98-108) and returns at once when none is left; the others go for
\* the lock
CallStore(c) ==
    /\ callers[c].pc = "away"
    /\ \E made \in StoreCalls :
          IF made.fn = "upsert_previews"
          THEN /\ callers' =
                      [callers EXCEPT ![c] =
                          [made EXCEPT
                              !.timestamp = storage.clock,
                              !.serializable_entries = SerializableEntries(made.entries),
                              !.pc = IF SerializableEntries(made.entries) = <<>>
                                     THEN "done" ELSE "acquire",
                              !.result = IF SerializableEntries(made.entries) = <<>>
                                         THEN <<[added |-> 0, updated |-> 0]>> ELSE <<>>]]
               /\ storage' = [storage EXCEPT !.clock = @ + 1]
          ELSE /\ callers' = [callers EXCEPT ![c] = [made EXCEPT !.pc = "acquire"]]
               /\ storage' = storage
    /\ UNCHANGED <<now, cache, refreshed, call, threads, scan, unit, transport, workers>>
    /\ UNCHANGED written

\* with _STORAGE_LOCK:
AcquireStorage(c) ==
    /\ callers[c].pc = "acquire"
    /\ StorageLockFree(storage._STORAGE_LOCK)
    /\ storage' = [storage EXCEPT !._STORAGE_LOCK = c]
    /\ callers' = [callers EXCEPT ![c].pc = "load"]
    /\ UNCHANGED <<now, cache, refreshed, call, threads, scan, unit, transport, workers>>
    /\ UNCHANGED written

\* store = _load_store_unlocked()
LoadStore(c) ==
    /\ callers[c].pc = "load"
    /\ callers' = [callers EXCEPT ![c].store = <<_load_store_unlocked(storage.file)>>,
                                  ![c].pc = "modify"]
    /\ UNCHANGED <<now, cache, refreshed, call, threads, scan, unit, transport, workers>>
    /\ UNCHANGED <<written, storage>>

\* the work on the store loaded; delete_preview reads the clock when it has
\* something to write
ModifyStore(c) ==
    /\ callers[c].pc = "modify"
    /\ callers' =
          [callers EXCEPT
              ![c].store = <<Locked(callers[c], callers[c].store[1], storage.clock).store>>,
              ![c].wrote = Locked(callers[c], callers[c].store[1], storage.clock).wrote,
              ![c].result = Locked(callers[c], callers[c].store[1], storage.clock).result,
              ![c].timestamp = IF callers[c].fn = "delete_preview" THEN storage.clock ELSE @,
              ![c].pc = IF Locked(callers[c], callers[c].store[1], storage.clock).wrote
                        THEN "write" ELSE "release"]
    /\ storage' = IF callers[c].fn = "delete_preview"
                     /\ Locked(callers[c], callers[c].store[1], storage.clock).wrote
                  THEN [storage EXCEPT !.clock = @ + 1]
                  ELSE storage
    /\ UNCHANGED <<now, cache, refreshed, call, threads, scan, unit, transport, workers>>
    /\ UNCHANGED written

\* _write_store_unlocked(store)
WriteStore(c) ==
    /\ callers[c].pc = "write"
    /\ storage' = [storage EXCEPT !.file = _write_store_unlocked(callers[c].store[1])]
    /\ callers' = [callers EXCEPT ![c].pc = "release"]
    /\ UNCHANGED <<now, cache, refreshed, call, threads, scan, unit, transport, workers>>
    /\ UNCHANGED written

\* the end of the with block, and the return
ReleaseStorage(c) ==
    /\ callers[c].pc = "release"
    /\ storage' = [storage EXCEPT !._STORAGE_LOCK = 0]
    /\ callers' = [callers EXCEPT ![c].pc = "done"]
    /\ UNCHANGED <<now, cache, refreshed, call, threads, scan, unit, transport, workers>>
    /\ UNCHANGED written

NextPreviews ==
    \E c \in Callers :
        \/ CallStore(c) \/ AcquireStorage(c) \/ LoadStore(c)
        \/ ModifyStore(c) \/ WriteStore(c) \/ ReleaseStorage(c)

SpecPreviews == InitPreviews /\ [][NextPreviews]_vars

(***************************************************************************)
(* Properties                                                              *)
(***************************************************************************)
\* the bucket of an entity, as the filter step computes it
BucketOf(entry) == normalize_handicap_to_half_bucket_str(<<_format_line(entry.handicap)>>)

\* the sorted candidates of the call, before the filter step
CandidatesOf(c) ==
    IF c.op = "upcoming" THEN UpcomingCandidates(c.dataset.val, c.at)
    ELSE FinishedCandidates(c.dataset.val, c.at)

\* list[lo : lo + n], written out
Window(list, lo, n) ==
    [i \in 1..(IF Len(list) - lo < 0 THEN 0 ELSE IF Len(list) - lo < n THEN Len(list) - lo ELSE n)
        |-> list[lo + i]]

\* With calls one at a time the TTL rule holds: 60 seconds from a refresh the
\* cached list is served without a download, and from then on one download
\* is made.
TtlOneAtATime ==
    (call.op # "none" /\ call.refreshedBefore # <<>>) =>
        IF call.at - call.refreshedBefore[1].at < 60
        THEN /\ call.downloads = 0
             /\ call.dataset = Ok(call.refreshedBefore[1].entries)
             /\ cache = call.before
        ELSE call.downloads = 1

\* C1: once a refresh that began at T is complete, no call that begins while
\* now - T < 60 goes to the upstream. With overlapping calls this fails: a
\* refresh that began earlier and stores later takes the timestamp back.
TtlAfterRefresh ==
    \A t \in Threads :
        (threads[t].pc = "download" /\ threads[t].seen # <<>>)
            => threads[t].now - threads[t].seen[1].at >= 60

\* C2: a call whose download fails returns the previous snapshot, or the
\* empty list when there is none, and leaves the cached timestamp and entries
\* as they were, so that the cache is no fresher than before.
DegradesOnFailure ==
    (call.op # "none" /\ call.downloads = 1 /\ call.raw = <<>>) =>
        /\ call.dataset = Ok(IF call.before.entries = <<>> THEN <<>>
                             ELSE call.before.entries[1])
        /\ cache.timestamp = call.before.timestamp
        /\ cache.entries = call.before.entries
        /\ ~IsFresh(cache, call.at)

\* a failed download answered from a snapshot that holds entities
DegradedToSnapshot ==
    /\ call.op # "none" /\ call.downloads = 1 /\ call.raw = <<>>
    /\ call.before.entries # <<>>
    /\ call.before.entries[1] # <<>>
    /\ call.dataset.val = call.before.entries[1]

\* C3: whatever the transport answers, _fetch_bf_dataset returns a list and
\* no exception reaches the caller.
NeverRaises == call.op # "none" => call.dataset.ok

\* the batch each feed would give if every row were taken on its own: the
\* entities of the rows that yield one, in feed order
RowByRow ==
    [feed \in Feeds |->
        LET rows == SelectSeq(SplitLines(feed),
                              LAMBDA line : /\ _parse_bf_dataset(line).ok
                                            /\ _parse_bf_dataset(line).val # <<>>)
        IN [i \in 1..Len(rows) |-> _parse_bf_dataset(rows[i]).val[1]]]

\* C4: a rejected row adds no entity, does not abort the batch and does not
\* change what the other rows give: the batch is the entities of the accepted
\* rows in feed order, each with an id written from an int and a kickoff.
BatchIsolation ==
    (call.op # "none" /\ call.downloads = 1 /\ call.raw # <<>>) =>
        /\ call.dataset.ok
        /\ call.dataset.val = RowByRow[call.raw[1]]
        /\ \A i \in 1..Len(call.dataset.val) :
              /\ call.dataset.val[i].id # <<>>
              /\ \A k \in 1..Len(call.dataset.val[i].id) :
                    call.dataset.val[i].id[k] \in Digits \cup {"-"}
              /\ call.dataset.val[i].match_time \in Int

\* C5: the upcoming query returns only entities with status 0 or a kickoff at
\* or after now, by non-decreasing kickoff, their records without a score; an
\* entity with both scores and a status in 1..4 is returned only with its
\* kickoff not yet past.
UpcomingOnly ==
    (call.op = "upcoming" /\ call.result.ok) =>
        /\ \A i \in 1..Len(call.sliced) :
              /\ call.sliced[i].status = 0 \/ call.sliced[i].match_time >= call.at
              /\ \E j \in 1..Len(call.dataset.val) : call.dataset.val[j] = call.sliced[i]
              /\ (/\ call.sliced[i].status \in {1, 2, 3, 4}
                  /\ call.sliced[i].home_score # <<>>
                  /\ call.sliced[i].away_score # <<>>) => call.sliced[i].match_time >= call.at
        /\ \A i \in 1..(Len(call.sliced) - 1) :
              call.sliced[i].match_time <= call.sliced[i + 1].match_time
        /\ Len(call.result.val) = Len(call.sliced)
        /\ \A i \in 1..Len(call.result.val) :
              /\ call.result.val[i].id = call.sliced[i].id
              /\ "score" \notin DOMAIN call.result.val[i]

\* an upcoming result of several records, one of them a match with a status
\* in 1..4 and both scores
UpcomingWithStartedStatus ==
    /\ call.op = "upcoming" /\ call.result.ok
    /\ Len(call.sliced) >= 2
    /\ \E i \in 1..Len(call.sliced) :
          /\ call.sliced[i].status \in {1, 2, 3, 4}
          /\ call.sliced[i].home_score # <<>>
          /\ call.sliced[i].away_score # <<>>

\* C6: the finished query returns only entities with a status in 1..4, both
\* scores and a kickoff at or before now, by non-increasing kickoff, and each
\* record carries the score "<home>-<away>".
FinishedOnly ==
    (call.op = "finished" /\ call.result.ok) =>
        /\ \A i \in 1..Len(call.sliced) :
              /\ call.sliced[i].status \in {1, 2, 3, 4}
              /\ call.sliced[i].home_score # <<>>
              /\ call.sliced[i].away_score # <<>>
              /\ call.sliced[i].match_time <= call.at
              /\ \E j \in 1..Len(call.dataset.val) : call.dataset.val[j] = call.sliced[i]
        /\ \A i \in 1..(Len(call.sliced) - 1) :
              call.sliced[i].match_time >= call.sliced[i + 1].match_time
        /\ Len(call.result.val) = Len(call.sliced)
        /\ \A i \in 1..Len(call.result.val) :
              /\ call.result.val[i].id = call.sliced[i].id
              /\ "score" \in DOMAIN call.result.val[i]
              /\ call.result.val[i].score
                 = IntText(call.sliced[i].home_score[1]) \o <<"-">>
                   \o IntText(call.sliced[i].away_score[1])

\* a finished result of several records, one of them kicking off exactly now,
\* from a dataset that also holds a match of status 1..4 without a score
FinishedAtKickoff ==
    /\ call.op = "finished" /\ call.result.ok
    /\ Len(call.sliced) >= 2
    /\ \E i \in 1..Len(call.sliced) : call.sliced[i].match_time = call.at
    /\ \E j \in 1..Len(call.dataset.val) :
          /\ call.dataset.val[j].status \in {1, 2, 3, 4}
          /\ call.dataset.val[j].away_score = <<>>
          /\ call.dataset.val[j].match_time <= call.at

\* C7: the limit used is 20 for a limit <= 0 and min(limit, 200) otherwise,
\* the offset used is max(0, offset); no limit or offset makes the query fail,
\* and the result is the window of that offset and limit, so never longer
\* than the limit used, nor than 200.
PaginationClamped ==
    call.op # "none" =>
        /\ call.limit_used = (IF call.limit <= 0 THEN 20
                              ELSE IF call.limit > 200 THEN 200 ELSE call.limit)
        /\ call.offset_used = (IF call.offset < 0 THEN 0 ELSE call.offset)
        /\ call.dataset.ok =>
              /\ call.result.ok
              /\ Len(call.result.val) <= call.limit_used
              /\ Len(call.result.val) <= 200
              /\ call.sliced = Window(ApplyHandicapFilter(CandidatesOf(call),
                                                          call.handicap_filter),
                                      call.offset_used, call.limit_used)

\* a limit of 0 that cut more than 20 candidates down to the default page
DefaultPageCut ==
    /\ call.op # "none" /\ call.dataset.ok
    /\ call.limit <= 0
    /\ Len(CandidatesOf(call)) > 20
    /\ Len(call.result.val) = 20

FilterBeforeSlice ==
    (/\ call.op # "none" /\ call.dataset.ok
     /\ call.handicap_filter # <<>>
     /\ normalize_handicap_to_half_bucket_str(call.handicap_filter) # <<>>) =>
        /\ call.sliced
           = Window(SelectSeq(CandidatesOf(call),
                              LAMBDA entry :
                                  BucketOf(entry)
                                  = normalize_handicap_to_half_bucket_str(call.handicap_filter)),
                    call.offset_used, call.limit_used)
        /\ \A i \in 1..Len(call.sliced) :
              BucketOf(call.sliced[i])
              = normalize_handicap_to_half_bucket_str(call.handicap_filter)
        /\ Len(call.result.val) = Len(call.sliced)
        /\ \A i \in 1..Len(call.sliced) : call.result.val[i].id = call.sliced[i].id

\* a filtered query with offset 1 whose first record is not the second
\* candidate: candidates of other buckets were passed over before the offset
\* was counted
OffsetCountsMatches ==
    /\ call.op # "none" /\ call.dataset.ok
    /\ call.handicap_filter # <<>>
    /\ normalize_handicap_to_half_bucket_str(call.handicap_filter) # <<>>
    /\ call.offset = 1
    /\ Len(call.sliced) >= 1
    /\ CandidatesOf(call)[2] # call.sliced[1]

\* the upcoming query of the scenario: the feed of rows A, B and C downloaded
\* at the start, limit 10, offset 0, filter "0.5"
ScenarioAsked ==
    /\ call.op = "upcoming"
    /\ call.downloads = 1 /\ call.raw = <<FeedScenario>>
    /\ call.at = StartNow
    /\ call.limit = 10 /\ call.offset = 0
    /\ call.handicap_filter = <<<<"0", ".", "5">>>>

\* C10: that query returns exactly the record of A: C never became an entity
\* and B is of another bucket.
ScenarioReturnsA ==
    ScenarioAsked =>
        /\ call.dataset.ok
        /\ [i \in 1..Len(call.dataset.val) |-> call.dataset.val[i].id]
           = <<<<"1", "0", "1">>, <<"1", "0", "2">>>>
        /\ call.result
           = Ok(<<[id |-> <<"1", "0", "1">>,
                   time |-> <<"0", "1", "/", "0", "1", " ", "1", "3", ":", "0", "0">>,
                   home_team |-> <<"H", "a">>,
                   away_team |-> <<"A", "a">>,
                   handicap |-> <<"0", ".", "2", "5">>,
                   goal_line |-> <<"-">>]>>)

\* the scenario asked and answered with one record
ScenarioAnswered == ScenarioAsked /\ call.result.ok /\ Len(call.result.val) = 1

\* the number of commas of entry that stand outside a quoted segment
OutsideCommas(entry) ==
    Cardinality({i \in 1..Len(entry) :
                    entry[i] = "," /\ ~TokScan(TokInit, entry, 1, i - 1).in_string})

\* C11: _parse_js_array gives one token per comma-separated field, a quoted
\* field being one string token: a payload with k commas outside quotes gives
\* k + 1 tokens, and 1,'Team, A',undefined,True gives [1, "Team, A", None, True].
TokenPerField ==
    scan.result # <<>> =>
        /\ Len(scan.result[1]) = OutsideCommas(scan.entry) + 1
        /\ scan.entry = TeamPayload =>
              scan.result[1] = <<PyInt(1), PyStr(<<"T", "e", "a", "m", ",", " ", "A">>), PyNone, PyBool(TRUE)>>

\* C12: inside a quoted segment only an unescaped quote ends the segment and
\* a comma splits nothing; a backslash escapes the one character after it,
\* which is copied as it is (an escaped quote does not close the segment) while
\* the backslash is not copied; the escape flag is set only inside a segment.
QuotingRules ==
    /\ [](scan.st.escaped => scan.st.in_string)
    /\ [][(scan.st.in_string /\ scan'.at = scan.at + 1) =>
            LET ch == scan.entry[scan.at + 1]
            IN /\ ~scan'.st.in_string <=> (ch = "'" /\ ~scan.st.escaped)
               /\ ch = "," => scan'.st.values = scan.st.values
               /\ scan.st.escaped =>
                     /\ scan'.st.token = scan.st.token \o <<ch>>
                     /\ ~scan'.st.escaped
               /\ (~scan.st.escaped /\ ch = "\\") =>
                     /\ scan'.st.token = scan.st.token
                     /\ scan'.st.escaped]_vars

\* 'a\',b' was scanned to its end and its segment gave the one string a',b
QuotedSegmentKept ==
    /\ scan.entry = QuotedPayload
    /\ scan.result # <<>>
    /\ Len(scan.st.values) = 1
    /\ scan.result[1][1] = PyStr(<<"a", "'", ",", "b">>)

\* text is written YYYY-MM-DD HH:MM:SS and names a date and a time of day
IsKickoffText(text) ==
    /\ Len(text) = 19
    /\ \A k \in 1..19 :
          IF k \in {5, 8} THEN text[k] = "-"
          ELSE IF k = 11 THEN text[k] = " "
          ELSE IF k \in {14, 17} THEN text[k] = ":"
          ELSE text[k] \in Digits
    /\ StrpTime(text) # <<>>

\* the token sequences the record builder is to reject
ToBeRejected(values) ==
    \/ Len(values) < 9
    \/ ~IntOfValue(values[1]).ok
    \/ values[9].t # "str"
    \/ ~IsKickoffText(Strip(values[9].s))

\* C13: _build_entry rejects a sequence of fewer than 9 tokens, one whose
\* token 0 does not coerce to an int and one whose token 8 is not a text
\* written YYYY-MM-DD HH:MM:SS; of every other sequence it makes an entity,
\* without an error, in which an index past the end of the sequence counts as
\* absent: scores, handicap and goal line None, status 0.
BuilderAcceptance ==
    (unit.fn = "_build_entry" /\ unit.done) =>
        IF ToBeRejected(unit.input) THEN unit.output = Ok(<<>>)
        ELSE /\ unit.output.ok
             /\ unit.output.val # <<>>
             /\ Len(unit.input) <= 12 => unit.output.val[1].home_score = <<>>
             /\ Len(unit.input) <= 13 => unit.output.val[1].away_score = <<>>
             /\ Len(unit.input) <= 19 => unit.output.val[1].status = 0
             /\ Len(unit.input) <= 28 => unit.output.val[1].handicap = <<>>
             /\ Len(unit.input) <= 34 => unit.output.val[1].goal_line = <<>>

\* the bucket text of the line of n and j quarters under the sign: whole
\* lines keep to themselves, quarters and halves go to the half
GridBucket(sign, n, j) ==
    IF n = 0 /\ j = 0 THEN <<"0", ".", "0">>
    ELSE (IF sign = <<"-">> THEN sign ELSE <<>>) \o NatText(n)
         \o (IF j = 0 THEN <<".", "0">> ELSE <<".", "5">>)

\* the line of n and j quarters under the sign, in eighths
Eighths(sign, n, j) == IF sign = <<"-">> THEN 0 - 2 * (4 * n + j) ELSE 2 * (4 * n + j)

\* the bucket text of a mean given in sixteenths
MeanBucket(sixteenths) ==
    FormatF1(_bucket_to_half(<<Fin(sixteenths < 0,
                                   Abs(sixteenths) * (Scale \div 16))>>)[1])

\* C14: the normalizer maps the text of n to n.0 and the texts of n + 0.25,
\* n + 0.5 and n + 0.75 to n.5, under either sign; zero maps to 0.0, a split
\* line to the bucket of the mean of its parts ("0/0.5" to "0.5"), and "abc"
\* to None.
QuarterGridBuckets ==
    (unit.fn = "normalize_handicap_to_half_bucket_str" /\ unit.done) =>
        /\ \A sign \in LineSigns, n \in 0..MaxLine, j \in 0..3 :
              unit.input = <<QuarterText(sign, n, j)>>
                  => unit.output = <<GridBucket(sign, n, j)>>
        /\ \A sa, sb \in {<<>>, <<"-">>}, na, nb \in 0..MaxLine, ja, jb \in 0..3 :
              unit.input = <<QuarterText(sa, na, ja) \o <<"/">> \o QuarterText(sb, nb, jb)>>
                  => unit.output = <<MeanBucket(Eighths(sa, na, ja) + Eighths(sb, nb, jb))>>
        /\ unit.input = <<<<"0", "/", "0", ".", "5">>>> => unit.output = <<<<"0", ".", "5">>>>
        /\ unit.input = <<<<"a", "b", "c">>>> => unit.output = <<>>

\* -1.75 was normalized, to -1.5
QuarterBucketed ==
    /\ unit.fn = "normalize_handicap_to_half_bucket_str" /\ unit.done
    /\ unit.input = <<QuarterText(<<"-">>, 1, 3)>>
    /\ unit.output = <<<<"-", "1", ".", "5">>>>

\* C15: a bucket text is its own bucket: whenever normalize(t) is not None,
\* normalize(normalize(t)) = normalize(t).
NormalizeIdempotent ==
    (unit.fn = "normalize_handicap_to_half_bucket_str" /\ unit.done /\ unit.output # <<>>) =>
        normalize_handicap_to_half_bucket_str(unit.output) = unit.output

\* C16: collect_handicap_options returns the bucket texts of the records,
\* each once, nothing for a record whose handicap does not normalize, in
\* ascending order of their numbers.
OptionsAreBuckets ==
    (unit.fn = "collect_handicap_options" /\ unit.done) =>
        /\ \A i, j \in 1..Len(unit.output) : i # j => unit.output[i] # unit.output[j]
        /\ \A k \in 1..Len(unit.output) :
              \E i \in 1..Len(unit.input) :
                  normalize_handicap_to_half_bucket_str(unit.input[i].handicap)
                  = <<unit.output[k]>>
        /\ \A i \in 1..Len(unit.input) :
              normalize_handicap_to_half_bucket_str(unit.input[i].handicap) # <<>> =>
                  \E k \in 1..Len(unit.output) :
                      normalize_handicap_to_half_bucket_str(unit.input[i].handicap)
                      = <<unit.output[k]>>
        /\ \A i, j \in 1..Len(unit.output) :
              i < j => OptionKey(unit.output[i]) <= OptionKey(unit.output[j])

\* three records, one with the handicap "-", gave two options of different
\* numbers
OptionsCollected ==
    /\ unit.fn = "collect_handicap_options" /\ unit.done
    /\ Len(unit.input) = 3
    /\ \E i \in 1..3 : unit.input[i].handicap = <<<<"-">>>>
    /\ Len(unit.output) = 2
    /\ OptionKey(unit.output[1]) < OptionKey(unit.output[2])

\* C17: however the first callers of _get_shared_requests_session overlap,
\* one session is built, every caller is handed that one, and the global,
\* once set, keeps it.
OneSession ==
    /\ transport.built <= 1
    /\ transport._requests_session # <<>> => transport._requests_session = <<1>>
    /\ \A w \in Workers :
          workers[w].session # <<>> => workers[w].session = transport._requests_session
    /\ \A w \in Workers :
          workers[w].pc \in {"fetch_lock", "get", "exit_with", "finish"}
              => workers[w].session # <<>>

\* two callers met at the first use (one waited while the other built the
\* session) and both now hold the one session
SessionShared ==
    /\ transport.built = 1
    /\ \A w \in Workers : workers[w].session = <<1>> /\ workers[w].calls = 0
    /\ \E w \in Workers : ~workers[w].missing

\* C18: a timeout, a refused connection or an error status makes the function
\* return None, a page makes it return the text, and no exception leaves it;
\* in app.py the fetch lock is held only inside its with block, after a
\* failed request as after a good one, so that the next request gets it.
FailureIsAValue ==
    /\ \A w \in Workers :
          workers[w].result # <<>> =>
              /\ workers[w].result[1].ok
              /\ workers[w].pc = "idle" =>
                    (workers[w].result[1].val = <<>> <=> workers[w].outcome # "ok")
    /\ transport._requests_fetch_lock # 0 =>
          workers[transport._requests_fetch_lock].pc \in {"get", "exit_with"}
    /\ transport.module = "nowgoal_client" => transport._requests_fetch_lock = 0

\* in app.py a request that timed out has returned None, and the other caller
\* has since taken the fetch lock
FetchAfterFailure ==
    /\ transport.module = "app"
    /\ \E w \in Workers :
          /\ workers[w].pc = "idle"
          /\ workers[w].outcome = "timeout"
          /\ workers[w].result = <<Ok(<<>>)>>
          /\ transport._requests_fetch_lock \in Workers \ {w}

\* C19: no refresh is lost: once a refresh has been stored, the cache does
\* not go back to the timestamp or the snapshot of a refresh that started
\* before it, and when every caller has returned the cache holds the refresh
\* that started last.
NoLostUpdate ==
    /\ [][\A t \in Threads :
            (/\ refreshed # <<>>
             /\ threads[t].pc \in {"store_timestamp", "store_entries"}
             /\ threads'[t].pc # threads[t].pc)
                => threads[t].now >= refreshed[1].at]_vars
    /\ []((refreshed # <<>> /\ \A t \in Threads : threads[t].pc = "idle") =>
             cache = [timestamp |-> <<refreshed[1].at>>,
                      entries |-> <<refreshed[1].entries>>])

\* C20: an entity whose status is none of 0, 1, 2, 3, 4 is returned by neither
\* query, whatever its kickoff and scores. The upcoming query returns it when
\* its kickoff is not yet past.
OtherStatusExcluded ==
    (call.op # "none" /\ call.result.ok) =>
        \A i \in 1..Len(call.sliced) : call.sliced[i].status \in {0, 1, 2, 3, 4}

\* C20, amended: an entity whose status is none of 0, 1, 2, 3, 4 is never
\* returned by the finished query, and is returned by the upcoming query
\* only when its kickoff is at or after now.
OtherStatusOnlyAhead ==
    (call.op # "none" /\ call.result.ok) =>
        \A i \in 1..Len(call.sliced) :
            call.sliced[i].status \notin {0, 1, 2, 3, 4} =>
                /\ call.op = "upcoming"
                /\ call.sliced[i].match_time >= call.at

\* an upcoming query returned an entity of status 5, from a dataset that also
\* holds one of status 5 that kicked off in the past and has both scores
OtherStatusAhead ==
    /\ call.op = "upcoming" /\ call.result.ok
    /\ \E i \in 1..Len(call.sliced) : call.sliced[i].status = 5
    /\ \E j \in 1..Len(call.dataset.val) :
          /\ call.dataset.val[j].status = 5
          /\ call.dataset.val[j].match_time < call.at
          /\ call.dataset.val[j].home_score # <<>>
          /\ call.dataset.val[j].away_score # <<>>

\* a query with a filter text that normalizes, answered from a dataset
ValidFilterAsked ==
    /\ call.op # "none" /\ call.dataset.ok
    /\ call.handicap_filter # <<>>
    /\ normalize_handicap_to_half_bucket_str(call.handicap_filter) # <<>>

\* C21: with a filter text that normalizes, a candidate whose own handicap
\* does not normalize is retained: the result is the window of the candidates
\* that are of the bucket of the filter or of no bucket.
UnbucketedRetained ==
    ValidFilterAsked =>
        call.sliced
        = Window(SelectSeq(CandidatesOf(call),
                           LAMBDA entry :
                               \/ BucketOf(entry) = <<>>
                               \/ BucketOf(entry)
                                  = normalize_handicap_to_half_bucket_str(call.handicap_filter)),
                 call.offset_used, call.limit_used)

\* C21, as the code has it: with a filter text that normalizes, a candidate
\* whose own handicap does not normalize is filtered out, and no record of
\* the result is the record of such a candidate.
UnbucketedFilteredOut ==
    ValidFilterAsked =>
        /\ \A i \in 1..Len(call.sliced) : BucketOf(call.sliced[i]) # <<>>
        /\ \A i \in 1..Len(CandidatesOf(call)) :
              BucketOf(CandidatesOf(call)[i]) = <<>> =>
                  \A j \in 1..Len(call.result.val) :
                      call.result.val[j].id # CandidatesOf(call)[i].id

\* a filtered query with records in its result and, among its candidates, one
\* whose handicap is absent and is rendered "-"
UnbucketedCandidateDropped ==
    /\ ValidFilterAsked
    /\ call.result.ok /\ Len(call.result.val) >= 1
    /\ \E i \in 1..Len(CandidatesOf(call)) :
          /\ CandidatesOf(call)[i].handicap = <<>>
          /\ _format_line(CandidatesOf(call)[i].handicap) = <<"-">>
          /\ BucketOf(CandidatesOf(call)[i]) = <<>>

\* C22: a quote met outside a quoted segment discards the bare text
\* accumulated since the last comma, so the string token of the segment holds
\* only the characters between the quotes: ab'cd' gives the string "cd".
QuoteStartsFreshToken ==
    /\ (/\ scan.result = <<>> /\ scan.at >= 1
        /\ scan.entry[scan.at] = "'"
        /\ ~TokScan(TokInit, scan.entry, 1, scan.at - 1).in_string) =>
           (scan.st.in_string /\ scan.st.token = <<>>)
    /\ (scan.entry = BarePayload /\ scan.result # <<>>) =>
           scan.result[1][1] = PyStr(<<"c", "d">>)

\* C23: a token flushed from a quoted segment, closed or left open at the end
\* of the input, is a string with the text of the segment whatever it reads
\* like; a bare token is trimmed and is None when empty or undefined, a
\* boolean when True or False, a float when it has a dot and parses, an
\* integer when it has no dot and parses, and the raw text otherwise.
TokensTyped ==
    scan.result # <<>> =>
        /\ Len(scan.result[1]) = Len(TokFlush(scan.st))
        /\ \A i \in 1..Len(scan.result[1]) :
              LET v == TokFlush(scan.st)[i]
                  r == scan.result[1][i]
                  null == v.raw \in {<<>>, <<"u", "n", "d", "e", "f", "i", "n", "e", "d">>}
                  bool == v.raw \in {<<"T", "r", "u", "e">>, <<"F", "a", "l", "s", "e">>}
                  dot == \E k \in 1..Len(v.raw) : v.raw[k] = "."
              IN IF v.kind = "str" THEN r.t = "str" /\ r.s = v.raw
                 ELSE /\ v.raw = Strip(v.raw)
                      /\ r.t = "None" <=> null
                      /\ r.t = "bool" <=> bool
                      /\ r.t = "bool" => (r.b <=> v.raw = <<"T", "r", "u", "e">>)
                      /\ r.t = "float" <=> (~null /\ ~bool /\ dot /\ FloatOfText(v.raw).ok)
                      /\ r.t = "float" => r.f = FloatOfText(v.raw).val
                      /\ r.t = "int" <=> (~null /\ ~bool /\ ~dot /\ IntOfText(v.raw).ok)
                      /\ r.t = "int" => r.i = IntOfText(v.raw).val
                      /\ r.t = "str" => r.s = v.raw

\* the payload '12','True','undefined',1.5, 12 ,x.y,False,'op typed: the
\* quoted texts stay strings, the bare tokens take the five types
EveryTypeFlushed ==
    /\ scan.entry = TypedPayload
    /\ scan.result # <<>>
    /\ scan.st.in_string
    /\ scan.result[1]
       = <<PyStr(<<"1", "2">>), PyNone, PyStr(<<"T", "r", "u", "e">>), PyNone,
           PyStr(<<"u", "n", "d", "e", "f", "i", "n", "e", "d">>), PyNone,
           PyFloat(Fin(FALSE, 15 * (Scale \div 10))), PyInt(12), PyStr(<<"x", ".", "y">>),
           PyBool(FALSE), PyStr(<<"o", "p">>)>>

\* the text with every minus sign U+2212 written as the ASCII minus
AsciiMinus(text) == IF text = <<>> THEN <<>> ELSE <<ReplaceChar(text[1], UnicodeMinus, "-")>>

\* C24: the feed client's normalizer reads the minus sign U+2212 like the
\* ASCII minus, so the result for a text is the result for the same text
\* with the other glyph, and the normalizers of nowgoal_client and of app.py
\* return the same result for every input.
MinusGlyphsAlike ==
    (unit.done /\ unit.fn = "normalize_handicap_to_half_bucket_str") =>
        /\ unit.output = normalize_handicap_to_half_bucket_str(AsciiMinus(unit.input))
        /\ unit.output = app_normalize_handicap_to_half_bucket_str(unit.input)

\* the rows of the document that the loop of a parser goes through
RowsOf(u) == MatchRows(u.input.html_content)

\* the row was accepted: the loop appended a match with its id
Accepted(u, row) ==
    \E i \in 1..Len(u.output.appended) : u.output.appended[i].id = MatchId(row)

\* C25: parse_main_page_finished_matches accepts a row only if its state
\* attribute is there and is "-1"; a row with another state or with no state
\* attribute is rejected.
StateMarkerRequired ==
    (unit.fn = "parse_main_page_finished_matches" /\ unit.done) =>
        \A k \in 1..Len(RowsOf(unit)) :
            Accepted(unit, RowsOf(unit)[k]) => RowsOf(unit)[k].state = <<<<"-", "1">>>>

\* C26: in both parsers a row whose time cell is missing, has no data-t
\* attribute or has one that does not parse is rejected, and the kickoff of
\* every accepted match was read from the data-t attribute of its row.
TimestampRequired ==
    (unit.fn \in {"parse_main_page_matches", "parse_main_page_finished_matches"}
     /\ unit.done) =>
        /\ \A k \in 1..Len(RowsOf(unit)) :
              (\/ ~RowsOf(unit)[k].time_cell
               \/ RowsOf(unit)[k].data_t = <<>>
               \/ StrpTime(RowsOf(unit)[k].data_t[1]) = <<>>)
                  => ~Accepted(unit, RowsOf(unit)[k])
        /\ \A i \in 1..Len(unit.output.appended) :
              \E k \in 1..Len(RowsOf(unit)) :
                  /\ MatchId(RowsOf(unit)[k]) = unit.output.appended[i].id
                  /\ RowsOf(unit)[k].time_cell
                  /\ RowsOf(unit)[k].data_t # <<>>
                  /\ StrpTime(RowsOf(unit)[k].data_t[1])
                     = <<unit.output.appended[i].time_obj>>

\* C27: a query leaves the cached list as it was, in content and in order:
\* after a query served from the cache, or one whose download or parse
\* failed, the cache is the cache of before, and after a query that
\* refreshed, the cache holds the list parsed from the download, whole.
QueriesLeaveSnapshot ==
    call.op # "none" =>
        IF call.downloads = 1 /\ call.raw # <<>> /\ call.dataset.ok
        THEN cache = [timestamp |-> <<call.at>>, entries |-> <<Parsed[call.raw[1]].val>>]
        ELSE cache = call.before

\* a query served from the cache whose records come in another order than
\* the cached list has them, the cached list being as before
SnapshotServedIntact ==
    /\ call.op # "none" /\ call.downloads = 0
    /\ call.dataset.ok /\ Len(call.sliced) >= 2
    /\ call.sliced # Window(call.dataset.val, 0, Len(call.sliced))
    /\ call.sliced # Window(call.before.entries[1], 0, Len(call.sliced))
    /\ cache.entries = call.before.entries

\* C28: in every reachable state the two halves of the cache, once both are
\* written, were written by the same refresh, and a caller that returns the
\* cached entries as fresh read a timestamp that the refresh of those
\* entries wrote.
CachePairOfOneRefresh ==
    /\ []((written.timestamp # <<>> /\ written.entries # <<>>)
              => written.timestamp = written.entries)
    /\ [][\A t \in Threads :
            (threads[t].pc = "read_entries" /\ threads'[t].pc = "idle")
                => threads[t].stamp = written.entries]_vars

\* the callers that have returned
Returned == {c \in Callers : callers[c].pc = "done"}

\* the orders in which the callers of S can be lined up
OrdersOf(S) ==
    {order \in [1..Cardinality(S) -> S] :
        \A i, j \in 1..Cardinality(S) : i # j => order[i] # order[j]}

\* the calls of order made one after the other from the file given, each
\* with the clock it read: the file left and the result of each call
RECURSIVE OneByOne(_, _, _)
OneByOne(order, file, results) ==
    IF order = <<>> THEN [file |-> file, results |-> results]
    ELSE LET c == callers[Head(order)]
             out == IF c.fn = "upsert_previews" /\ c.serializable_entries = <<>>
                    THEN [store |-> <<>>, wrote |-> FALSE,
                          result |-> <<[added |-> 0, updated |-> 0]>>]
                    ELSE Locked(c, _load_store_unlocked(file), c.timestamp)
         IN OneByOne(Tail(order),
                     IF out.wrote THEN _write_store_unlocked(out.store) ELSE file,
                     [results EXCEPT ![Head(order)] = out.result])

\* the number of entries of an upsert with an id that is not blank and a
\* payload that is a dict
ValidEntries(entries) ==
    Cardinality({i \in 1..Len(entries) :
                    /\ \E k \in 1..Len(entries[i].raw_match_id) :
                          entries[i].raw_match_id[k] \notin Whitespace
                    /\ entries[i].payload # <<>>})

\* the ids an upsert stores, and whether a match is in the file
StoredIds(c) ==
    {callers[c].serializable_entries[i].match_id :
        i \in 1..Len(callers[c].serializable_entries)}

InFile(match_id, payload_type) ==
    /\ storage.file # <<>>
    /\ \E i \in 1..Len(storage.file[1].matches) :
          /\ storage.file[1].matches[i].match_id = match_id
          /\ storage.file[1].matches[i].bucket[payload_type] # <<>>

\* C29: whenever no caller holds the lock, the file and the results of the
\* callers that have returned are those of these calls made one after the
\* other in some order; when no delete was made every match of every upsert
\* that has returned is in the file; and every upsert returns added and
\* updated that add up to the number of its valid entries.
SerialStore ==
    /\ storage._STORAGE_LOCK = 0 =>
          \E order \in OrdersOf(Returned) :
              OneByOne(order, <<>>, [c \in Callers |-> callers[c].result])
              = [file |-> storage.file, results |-> [c \in Callers |-> callers[c].result]]
    /\ (\A c \in Callers : callers[c].fn # "delete_preview") =>
          \A c \in Returned :
              callers[c].fn = "upsert_previews" =>
                  \A match_id \in StoredIds(c) : InFile(match_id, callers[c].payload_type)
    /\ \A c \in Returned :
          callers[c].fn = "upsert_previews" =>
              callers[c].result[1].added + callers[c].result[1].updated
              = ValidEntries(callers[c].entries)

\* two upserts for the matches a and b that overlapped, the one that read the
\* clock first writing last, both matches in the file, while a third caller
\* deleted or listed
ConcurrentUpsertsKept ==
    /\ Returned = Callers
    /\ \E c, d \in Callers :
          /\ callers[c].fn = "upsert_previews" /\ callers[d].fn = "upsert_previews"
          /\ StoredIds(c) = {<<"a">>} /\ StoredIds(d) = {<<"b">>}
          /\ callers[c].timestamp < callers[d].timestamp
          /\ storage.file # <<>>
          /\ storage.file[1].last_updated = <<callers[c].timestamp>>
          /\ InFile(<<"a">>, "preview") /\ InFile(<<"b">>, "preview")
          /\ callers[c].result[1].added + callers[c].result[1].updated = 1


\* the entities the other query returns from the dataset of the call, at the
\* instant of the call and with its arguments
OtherView ==
    IF call.op = "upcoming"
    THEN FinishedSlice(call.dataset.val, call.at, call.limit, call.offset,
                       call.handicap_filter)
    ELSE UpcomingSlice(call.dataset.val, call.at, call.limit, call.offset,
                       call.handicap_filter)

\* the places of the dataset of the call whose entity both queries take as a
\* candidate, and the entities both return
InBothViews ==
    {j \in 1..Len(call.dataset.val) :
        /\ IsUpcoming(call.dataset.val[j], call.at)
        /\ IsFinished(call.dataset.val[j], call.at)}

ReturnedByBoth ==
    LET Both(other) ==
            {call.sliced[i] : i \in 1..Len(call.sliced)}
            \cap {other[i] : i \in 1..Len(other)}
    IN Both(OtherView)

\* C30 as stated: no entity of the dataset is a candidate of both queries at
\* one instant, and no entity is returned by both.
ViewsDisjoint ==
    (call.op # "none" /\ call.dataset.ok) =>
        /\ InBothViews = {}
        /\ ReturnedByBoth = {}

\* C30: an entity is a candidate of both queries at one instant, or returned
\* by both, only when its kickoff is that instant exactly, its status is in
\* 1..4 and it has both scores.
ViewsMeetAtKickoffOnly ==
    (call.op # "none" /\ call.dataset.ok) =>
        /\ \A j \in InBothViews :
              /\ call.dataset.val[j].match_time = call.at
              /\ call.dataset.val[j].status \in {1, 2, 3, 4}
              /\ call.dataset.val[j].home_score # <<>>
              /\ call.dataset.val[j].away_score # <<>>
        /\ \A entry \in ReturnedByBoth :
              /\ entry.match_time = call.at
              /\ entry.status \in {1, 2, 3, 4}
              /\ entry.home_score # <<>>
              /\ entry.away_score # <<>>

\* a call that returns a match kicking off at the instant of the call, which
\* the other query returns too, from a dataset with a finished match of an
\* earlier kickoff and a match of status 0 that only one query takes
ReturnedByBothAtKickoff ==
    /\ call.op # "none" /\ call.dataset.ok
    /\ ReturnedByBoth # {}
    /\ \E j, k \in 1..Len(call.dataset.val) :
          /\ j \notin InBothViews /\ k \notin InBothViews
          /\ IsFinished(call.dataset.val[j], call.at)
          /\ call.dataset.val[j].match_time < call.at
          /\ call.dataset.val[k].status = 0

====
